---- MODULE Spec2Model ----
(***************************************************************************)
(* Load-flow visualisation pipeline: daily profile synthesis               *)
(* (DailyLoadProfileGenerator), data preparation (DataPrepare), network    *)
(* assembly and per-hour population (LoadFlow) and the hourly orchestrator *)
(* (PowerFlowViz).                                                         *)
(*                                                                         *)
(* Numbers.  A Python float x is held as the integer x * Scale, so that    *)
(* the divisions and products of the code are computed, not assumed.       *)
(* A value that can be missing (a NaN cell of the sheet) is a record       *)
(* [nan, v].  Peak powers of the sheet are whole kW / kVar.                *)
(***************************************************************************)
EXTENDS Integers, Sequences, FiniteSets, TLC

VARIABLES
    xls,            \* the input sheet: a sequence of rows
    node_arg,       \* node_df["ID"] handed to LoadFlow (already strings)
    entry,          \* who drives: "viz" PowerFlowViz, "direct" LoadFlow, "synth" the generator
    cfg,            \* arguments of DailyLoadProfileGenerator / PowerFlowViz.stochastic
    df_stats,       \* the hourly quantile table
    np_random,      \* state of the process-wide numpy generator
    gen,            \* the DailyLoadProfileGenerator object built last
    load_list,      \* PowerFlowViz.load_list: the three profile frames and load_df
    buses,          \* LoadFlow.buses: ordered dict bus id -> bus index
    net,            \* the pandapower network (bus, ext_grid, line, load, gen, res)
    pc,             \* position of the running call
    err,            \* exception that ended the last call ("" if none)
    hours,          \* hours still to iterate in _iterate_hours
    hr,             \* hour of the current loop iteration
    call,           \* current call: kind, hour_start, hour_end, save
    log,            \* what the current call did, in order
    out,            \* aggregate / plot / save effects of the current call
    ncalls,         \* number of generate_* calls started on this object
    node_df,        \* PowerFlowViz.node_df: id and coordinates of every bus
    line_df,        \* PowerFlowViz.line_df: id and end ids of every row
    synth           \* generator objects being constructed side by side

vars == <<xls, node_arg, entry, cfg, df_stats, np_random, gen, load_list,
          buses, net, pc, err, hours, hr, call, log, out, ncalls,
          node_df, line_df, synth>>

----------------------------------------------------------------------------
(* Bounds of the model *)

MaxRows  == 2       \* rows of the input sheet
MaxBusId == 3       \* bus ids of the sheet are 1..MaxBusId
MaxCalls == 2       \* generate_* calls made on one PowerFlowViz object

----------------------------------------------------------------------------
(* Numbers *)

Scale == 10 ^ 7

Num(n) == [nan |-> FALSE, v |-> n]
NaN    == [nan |-> TRUE, v |-> 0]

\* bool(x) of a Python float: only 0.0 is false; NaN is true.
Truthy(f) == f.nan \/ f.v # 0

\* x == 0 of a Python float: false for NaN.
IsZero(f) == ~f.nan /\ f.v = 0

\* x / 1000
Div1000(f) == IF f.nan THEN NaN ELSE Num(f.v \div 1000)

\* no clipping
ClipNot(v, lo, hi) == v

\* np.clip(v, lo, hi)
Clip(v, lo, hi) == IF v < lo THEN lo ELSE IF v > hi THEN hi ELSE v

\* np.clip(v, lo, None)
ClipLow(v, lo) == IF v < lo THEN lo ELSE v

\* str(n) of a bus id of the sheet: the ids are integers, apart from the
\* stations named "BT<k>", which the sheets of the model hold as -k
Str(n) == IF n < 0 THEN "BT" \o ToString(0 - n) ELSE ToString(n)

\* f"{hr:02d}:00"
HrStr(h) == (IF 0 <= h /\ h <= 9 THEN "0" ELSE "") \o ToString(h) \o ":00"

HoursPerDay == 24

\* range(a, b + 1): the end hour taken as the last hour
RangeInclusive(a, b) == [i \in 1..(IF b >= a THEN b - a + 1 ELSE 0) |-> a + i - 1]

\* range(a, b) as a list
Range(a, b) == [i \in 1..(IF b > a THEN b - a ELSE 0) |-> a + i - 1]

\* self.hours
HourLabels == [i \in 1..HoursPerDay |-> HrStr(i - 1)]

SeqToSet(s) == {s[i] : i \in 1..Len(s)}

----------------------------------------------------------------------------
(* Ordered dict (LoadFlow.buses) *)

DictHas(d, k) == \E i \in 1..Len(d) : d[i].key = k

DictGet(d, k) == d[CHOOSE i \in 1..Len(d) : d[i].key = k].val

\* d[k] = v : an existing key keeps its position
DictSet(d, k, v) ==
    IF DictHas(d, k)
    THEN [i \in 1..Len(d) |-> IF d[i].key = k THEN [key |-> k, val |-> v] ELSE d[i]]
    ELSE Append(d, [key |-> k, val |-> v])

----------------------------------------------------------------------------
(* numpy's process-wide pseudo-random generator.  Its stream is a          *)
(* deterministic function of the seed; a small full-period additive        *)
(* generator stands for it.                                                *)

RngMod == 32

\* no call of np.random.seed: the stream goes on from where it stands
RngSeedSkipped(s) == np_random

\* np.random.seed(s)
RngSeed(s) == s % RngMod

\* the state after one draw
RngNext(st) == (st + 13) % RngMod

\* the state after k draws
RngAdvance(st, k) == (st + 13 * k) % RngMod

\* the uniform draw in [0, 1) made on reaching state st, in hundredths
Uniform100(st) == (st * 100) \div RngMod

\* the standard normal draw made on reaching state st, in whole deviations
NormalZ(st) == (st % 5) - 2

----------------------------------------------------------------------------
(* DailyLoadProfileGenerator *)

\* the archetype curves, in hundredths
profiles ==
    [residential_weekday |->
        <<25, 20, 15, 12, 15, 40, 60, 80, 60, 40, 35, 30,
          30, 40, 50, 60, 80, 100, 90, 70, 50, 40, 35, 30>>,
     residential_weekend |->
        <<35, 30, 25, 20, 25, 40, 60, 80, 90, 100, 95, 85,
          75, 80, 90, 95, 100, 95, 85, 70, 50, 40, 35, 30>>,
     office |->
        <<0, 0, 0, 0, 5, 20, 50, 70, 90, 100, 100, 95,
          95, 90, 80, 60, 40, 20, 10, 5, 0, 0, 0, 0>>,
     industry |->
        <<10, 10, 10, 10, 20, 40, 60, 80, 100, 100, 100, 100,
          100, 100, 100, 100, 100, 80, 60, 40, 20, 10, 10, 10>>,
     hospital |->
        <<70, 70, 70, 70, 75, 80, 85, 90, 95, 100, 100, 95,
          95, 90, 90, 90, 90, 95, 95, 90, 85, 80, 75, 70>>]

SummerCurve ==
    <<0, 0, 0, 0, 1, 5, 15, 35, 60, 80, 95, 100,
      98, 90, 75, 55, 35, 15, 5, 1, 0, 0, 0, 0>>

\* round(v * 0.35, 4) of a value v given in hundredths, at Scale
Round4Times035(v100) == (v100 * 35) * (Scale \div 10000)

pv_profile ==
    [summer |-> [i \in 1..HoursPerDay |-> SummerCurve[i] * (Scale \div 100)],
     winter |-> [i \in 1..HoursPerDay |-> Round4Times035(SummerCurve[i])],
     night  |-> [i \in 1..HoursPerDay |-> 0]]

Raise(e) == [ok |-> FALSE, err |-> e]
Return(v) == [ok |-> TRUE, val |-> v]

\* the default curve for every known name
SelectProfileWeekday(ptype) ==
    IF ptype \notin DOMAIN profiles
    THEN Raise("ValueError")
    ELSE Return([i \in 1..HoursPerDay |->
                    profiles.residential_weekday[i] * (Scale \div 100)])

\* _select_profile
SelectProfile(ptype) ==
    IF ptype \notin DOMAIN profiles
    THEN Raise("ValueError")
    ELSE Return([i \in 1..HoursPerDay |-> profiles[ptype][i] * (Scale \div 100)])

\* pv_profile.get(name, pv_profile["summer"])
SelectPvProfileFallback(pvtype) ==
    IF pvtype \notin DOMAIN pv_profile
    THEN Return(pv_profile.summer)
    ELSE Return(pv_profile[pvtype])

\* _select_pv_profile
SelectPvProfile(pvtype) ==
    IF pvtype \notin DOMAIN pv_profile
    THEN Raise("ValueError")
    ELSE Return(pv_profile[pvtype])

\* the profile chosen by __init__ line 16: skipped in stochastic mode
InitProfile(ptype, stoch) ==
    IF ~stoch THEN SelectProfile(ptype) ELSE Return(<<>>)

quantile_probs == <<5, 10, 25, 50, 75, 90, 95>>

\* the end segments continued beyond the first and last breakpoint
InterpExtrapolate(u, xp, fp) ==
    LET k == IF u < xp[1] THEN 1
             ELSE IF u >= xp[Len(xp)] THEN Len(xp) - 1
             ELSE CHOOSE k \in 1..(Len(xp) - 1) : xp[k] <= u /\ u < xp[k + 1]
    IN  fp[k] + ((fp[k + 1] - fp[k]) * (u - xp[k])) \div (xp[k + 1] - xp[k])

\* np.interp(u, xp, fp) for increasing xp
Interp(u, xp, fp) ==
    IF u <= xp[1] THEN fp[1]
    ELSE IF u >= xp[Len(xp)] THEN fp[Len(fp)]
    ELSE LET k == CHOOSE k \in 1..(Len(xp) - 1) : xp[k] <= u /\ u < xp[k + 1]
         IN  fp[k] + ((fp[k + 1] - fp[k]) * (u - xp[k])) \div (xp[k + 1] - xp[k])

\* the noise factor clipped to [0, 1] before it multiplies the curve
NoisyShapeClippedNoise(shape, level100, st) ==
    (shape \div 100) * Clip(100 + level100 * NormalZ(st), 0, 100)

\* hour_profile, with the noise of one draw applied (noise level in hundredths)
NoisyShape(shape, level100, st) ==
    Clip((shape \div 100) * (100 + level100 * NormalZ(st)), 0, Scale)

\* base["Bus_ID"].astype(int).astype(str)
ParsesAsInt(s) == \E n \in 0..(MaxBusId + 1) : Str(n) = s
IntStr(s) == Str(CHOOSE n \in 0..(MaxBusId + 1) : Str(n) = s)

\* the frame base, returned with the columns it happens to have
SelectHoursAll(rows) == Return(rows)

\* the frame base[["Bus_ID"] + self.hours]
SelectHours(rows) ==
    IF \E i \in 1..Len(rows) : ~(SeqToSet(HourLabels) \subseteq DOMAIN rows[i].col)
    THEN Raise("KeyError")
    ELSE Return([i \in 1..Len(rows) |->
            [Bus_ID |-> rows[i].Bus_ID,
             col |-> [l \in SeqToSet(HourLabels) |-> rows[i].col[l]]]])

\* the first row of df_stats carrying hour label l
StatsRow(stats, l) == stats[CHOOSE j \in 1..Len(stats) :
                        /\ stats[j].hour = l
                        /\ \A k \in 1..(j - 1) : stats[k].hour # l]

\* columns written by the stochastic branch of _generate_profile_df
StochasticCols(i, n, stats, sd) ==
    [l \in {stats[j].hour : j \in 1..Len(stats)} |->
        LET j  == CHOOSE j \in 1..Len(stats) :
                    stats[j].hour = l /\ \A k \in (j + 1)..Len(stats) : stats[k].hour # l
            st == RngAdvance(RngSeed(sd), (i - 1) * Len(stats) + j)
        IN  ClipLow(Interp(Uniform100(st), quantile_probs, StatsRow(stats, l).q), 0)]

\* the curve read one hour late: the column of hour h gets the value of h + 1
DeterministicColsShifted(i, n, peak, shape, noise, level100, st0) ==
    [l \in SeqToSet(HourLabels) |->
        LET h  == CHOOSE h \in 1..HoursPerDay : HourLabels[h] = l
            st == RngAdvance(st0, (h - 1) * n + i)
            sh == shape[(h % HoursPerDay) + 1]
        IN  peak * (IF noise THEN NoisyShape(sh, level100, st) ELSE sh)]

\* columns written by the deterministic branch: draw (h-1)*n + i of the
\* stream that starts in state st0 is the noise of load point i at hour h
DeterministicCols(i, n, peak, shape, noise, level100, st0) ==
    [l \in SeqToSet(HourLabels) |->
        LET h  == CHOOSE h \in 1..HoursPerDay : HourLabels[h] = l
            st == RngAdvance(st0, (h - 1) * n + i)
        IN  peak * (IF noise THEN NoisyShape(shape[h], level100, st) ELSE shape[h])]

\* _generate_profile_df(power_col): [ok, val |-> frame, rng] or [ok, err, rng]
GenerateProfileDf(df, peakcol, shape, c, stats) ==
    LET n    == Len(df)
        st0  == RngSeed(c.seed)
        rows == [i \in 1..n |->
                    [Bus_ID |-> df[i].Bus_ID,
                     col |-> IF c.stochastic
                             THEN StochasticCols(i, n, stats, c.seed)
                             ELSE DeterministicCols(i, n, df[i][peakcol], shape,
                                                    c.add_noise, c.noise_level, st0)]]
        rng  == IF c.stochastic THEN RngAdvance(st0, n * Len(stats))
                ELSE IF c.add_noise THEN RngAdvance(st0, n * HoursPerDay)
                ELSE st0
        sel  == SelectHours(rows)
    IN  IF \E i \in 1..n : ~ParsesAsInt(df[i].Bus_ID)
        THEN [ok |-> FALSE, err |-> "ValueError", rng |-> rng]
        ELSE IF ~sel.ok
        THEN [ok |-> FALSE, err |-> sel.err, rng |-> rng]
        ELSE [ok |-> TRUE, rng |-> rng,
              val |-> [i \in 1..n |-> [Bus_ID |-> IntStr(sel.val[i].Bus_ID),
                                       col |-> sel.val[i].col]]]

\* the generation frame with a seeding of its own
GeneratePvProfileDfReseeded(df, shape, c, rng0) ==
    LET n    == Len(df)
        st0  == RngSeed(c.seed)
        rows == [i \in 1..n |->
                    [Bus_ID |-> df[i].Bus_ID,
                     col |-> DeterministicCols(i, n, df[i].Pg, shape,
                                               c.add_noise, c.noise_level, st0)]]
        rng  == IF c.add_noise THEN RngAdvance(st0, n * HoursPerDay) ELSE st0
    IN  IF \E i \in 1..n : ~ParsesAsInt(df[i].Bus_ID)
        THEN [ok |-> FALSE, err |-> "ValueError", rng |-> rng]
        ELSE [ok |-> TRUE, rng |-> rng,
              val |-> [i \in 1..n |-> [Bus_ID |-> IntStr(rows[i].Bus_ID),
                                       col |-> rows[i].col]]]

\* _generate_pv_profile_df: continues the stream where it stands
GeneratePvProfileDf(df, shape, c, rng0) ==
    LET n    == Len(df)
        rows == [i \in 1..n |->
                    [Bus_ID |-> df[i].Bus_ID,
                     col |-> DeterministicCols(i, n, df[i].Pg, shape,
                                               c.add_noise, c.noise_level, rng0)]]
        rng  == IF c.add_noise THEN RngAdvance(rng0, n * HoursPerDay) ELSE rng0
    IN  IF \E i \in 1..n : ~ParsesAsInt(df[i].Bus_ID)
        THEN [ok |-> FALSE, err |-> "ValueError", rng |-> rng]
        ELSE [ok |-> TRUE, rng |-> rng,
              val |-> [i \in 1..n |-> [Bus_ID |-> IntStr(rows[i].Bus_ID),
                                       col |-> rows[i].col]]]

\* df_copy[cols] * 0.3
Times03(frame) ==
    [i \in 1..Len(frame) |->
        [Bus_ID |-> frame[i].Bus_ID,
         col |-> [l \in DOMAIN frame[i].col |-> (frame[i].col[l] * 3) \div 10]]]

\* DailyLoadProfileGenerator.__init__ : the object, or the exception raised,
\* and the state in which it leaves the numpy generator
GeneratorInit(df, stats, c, rng0) ==
    LET prof == InitProfile(c.profile_type, c.stochastic)
        pv   == SelectPvProfile(c.pv_profile_type)
        act  == GenerateProfileDf(df, "PLmax", prof.val, c, stats)
        rea  == IF ~c.stochastic
                THEN GenerateProfileDf(df, "QLmax", prof.val, c, stats)
                ELSE [ok |-> TRUE, rng |-> act.rng, val |-> Times03(act.val)]
        pvd  == GeneratePvProfileDf(df, pv.val, c, rea.rng)
    IN  IF ~prof.ok THEN [ok |-> FALSE, err |-> prof.err, rng |-> rng0]
        ELSE IF ~pv.ok THEN [ok |-> FALSE, err |-> pv.err, rng |-> rng0]
        ELSE IF ~act.ok THEN [ok |-> FALSE, err |-> act.err, rng |-> act.rng]
        ELSE IF ~rea.ok THEN [ok |-> FALSE, err |-> rea.err, rng |-> rea.rng]
        ELSE IF ~pvd.ok THEN [ok |-> FALSE, err |-> pvd.err, rng |-> pvd.rng]
        ELSE [ok |-> TRUE, rng |-> pvd.rng,
              val |-> [active_profile_df |-> act.val,
                       reactive_profile_df |-> rea.val,
                       pv_profile_df |-> pvd.val]]

----------------------------------------------------------------------------
(* DataPrepare *)

\* the columns of the sheet: the model's sheets carry them in their rows
AllColumns == {"From", "To", "Line", "Length", "R", "X", "Ampacity", "PLmax",
               "QLmax", "Pg", "From_XY", "To_XY"}

Columns(sheet) == IF sheet = <<>> THEN AllColumns ELSE DOMAIN sheet[1]

\* _check_required_columns
CheckRequiredColumns(sheet, required) ==
    IF required \subseteq Columns(sheet) THEN Return(TRUE) ELSE Raise("ValueError")

\* every row of the sheet taken as a load point
LoadRowsAll(sheet) ==
    [i \in 1..Len(sheet) |->
        [Bus_ID |-> Str(sheet[i].To), PLmax |-> sheet[i].PLmax,
         QLmax |-> sheet[i].QLmax, Pg |-> sheet[i].Pg]]

\* make_load_df, up to the construction of the generator: the rows with a
\* non-zero peak; an empty selection has no "Bus_ID" column to convert
LoadRows(sheet) ==
    SelectSeq([i \in 1..Len(sheet) |->
                  [Bus_ID |-> Str(sheet[i].To), PLmax |-> sheet[i].PLmax,
                   QLmax |-> sheet[i].QLmax, Pg |-> sheet[i].Pg]],
              LAMBDA r : r.PLmax # 0 \/ r.Pg # 0 \/ r.QLmax # 0)

MakeLoadDf(sheet) ==
    IF ~CheckRequiredColumns(sheet, {"PLmax", "QLmax", "Pg", "To"}).ok
    THEN Raise("ValueError")
    ELSE IF LoadRows(sheet) = <<>> THEN Raise("KeyError") ELSE Return(LoadRows(sheet))

\* _extract_unique_nodes: ids in order of first appearance, From before To
RECURSIVE UniqueNodes(_, _, _)
UniqueNodes(sheet, i, seen) ==
    IF i > Len(sheet) THEN seen
    ELSE LET a == IF \E k \in 1..Len(seen) : seen[k] = sheet[i].From
                  THEN seen ELSE Append(seen, sheet[i].From)
             b == IF \E k \in 1..Len(a) : a[k] = sheet[i].To
                  THEN a ELSE Append(a, sheet[i].To)
         IN  UniqueNodes(sheet, i + 1, b)

ExtractUniqueNodes(sheet) ==
    LET ids == UniqueNodes(sheet, 1, <<>>)
    IN  IF ids = <<>> THEN Raise("KeyError")
        ELSE Return([k \in 1..Len(ids) |-> Str(ids[k])])

\* _split_xy: a pair of numbers, or (None, None)
SplitXY(xy) == IF Len(xy) = 2 THEN <<Num(xy[1]), Num(xy[2])>> ELSE <<NaN, NaN>>

\* the coordinate cell of the row in which the id appears first, the From
\* end of a row before its To end
FirstXY(sheet, id) ==
    LET i == CHOOSE i \in 1..Len(sheet) :
                /\ sheet[i].From = id \/ sheet[i].To = id
                /\ \A k \in 1..(i - 1) : sheet[k].From # id /\ sheet[k].To # id
    IN  IF sheet[i].From = id THEN sheet[i].From_XY ELSE sheet[i].To_XY

\* node_df of _extract_unique_nodes, with the two columns that
\* _correct_bt_proximity adds to it
NodeEntries(sheet) ==
    LET ids == UniqueNodes(sheet, 1, <<>>)
    IN  [k \in 1..Len(ids) |->
            LET xy == FirstXY(sheet, ids[k])
            IN  [ID |-> Str(ids[k]), XY |-> xy,
                 latitude |-> SplitXY(xy)[1], longitude |-> SplitXY(xy)[2],
                 latitude_original |-> SplitXY(xy)[1],
                 longitude_original |-> SplitXY(xy)[2]]]

\* node_df["ID"].str.contains("BT")
IsBT(name) == \E k \in 1..(MaxBusId + 1) : name = Str(0 - k)

\* geod.inv(...) < 7.0 on the local plane, in metres
Near(a, b) ==
    (a.latitude.v - b.latitude.v) * (a.latitude.v - b.latitude.v)
    + (a.longitude.v - b.longitude.v) * (a.longitude.v - b.longitude.v) < 7 * 7

\* _correct_bt_proximity: a node within 7 m of a station takes the place
\* of the first such station
CorrectBtProximity(nodes) ==
    LET bt == SelectSeq(nodes, LAMBDA r : IsBT(r.ID))
    IN  [k \in 1..Len(nodes) |->
            IF nodes[k].latitude.nan \/ nodes[k].longitude.nan
               \/ ~\E j \in 1..Len(bt) : Near(nodes[k], bt[j])
            THEN nodes[k]
            ELSE LET j == CHOOSE j \in 1..Len(bt) :
                            /\ Near(nodes[k], bt[j])
                            /\ \A m \in 1..(j - 1) : ~Near(nodes[k], bt[m])
                 IN  [nodes[k] EXCEPT !.latitude = bt[j].latitude,
                                      !.longitude = bt[j].longitude,
                                      !.XY = <<bt[j].latitude.v, bt[j].longitude.v>>]]

\* make_node_df
MakeNodeDf(sheet) ==
    IF ~CheckRequiredColumns(sheet, {"From", "To", "From_XY", "To_XY"}).ok
    THEN Raise("ValueError")
    ELSE IF ~ExtractUniqueNodes(sheet).ok THEN Raise(ExtractUniqueNodes(sheet).err)
    ELSE Return(CorrectBtProximity(NodeEntries(sheet)))

\* node_df["ID"]
IdsOf(nodes) == [k \in 1..Len(nodes) |-> nodes[k].ID]

\* make_line_df
MakeLineDf(sheet) ==
    IF ~CheckRequiredColumns(sheet, {"Line", "From", "To", "From_XY", "To_XY"}).ok
    THEN Raise("ValueError")
    ELSE IF sheet = <<>> THEN Raise("KeyError")
    ELSE Return([i \in 1..Len(sheet) |->
                    [ID |-> sheet[i].Line, From_Bus_ID |-> Str(sheet[i].From),
                     To_Bus_ID |-> Str(sheet[i].To)]])

----------------------------------------------------------------------------
(* LoadFlow *)

Vb == 400

EmptyNet == [bus |-> <<>>, ext_grid |-> <<>>, line |-> <<>>, load |-> <<>>,
             gen |-> <<>>, res |-> [ok |-> FALSE, load |-> <<>>]]

\* _create_buses: one bus per id; the external grid on the first value of
\* the dict, if the dict is not empty
RECURSIVE CreateBusLoop(_, _, _, _)
CreateBusLoop(ids, i, d, busTable) ==
    IF i > Len(ids) THEN [buses |-> d, bus |-> busTable]
    ELSE CreateBusLoop(ids, i + 1, DictSet(d, ids[i], Len(busTable)),
                       Append(busTable, [name |-> ids[i],
                                         vn_kv |-> Vb * (Scale \div 1000)]))

ExtGridFor(d) ==
    IF d # <<>> THEN <<[bus |-> d[1].val, name |-> "Grid"]>> ELSE <<>>

CreateBuses(n, ids, d) ==
    LET r == CreateBusLoop(ids, 1, d, n.bus)
    IN  [buses |-> r.buses,
         net |-> [n EXCEPT !.bus = r.bus,
                           !.ext_grid = n.ext_grid \o ExtGridFor(r.buses)]]

\* self.buses.get(k, -1)
LookupBusDefault(d, k) == IF DictHas(d, k) THEN Return(DictGet(d, k)) ELSE Return(-1)

\* self.buses[k]
LookupBus(d, k) == IF DictHas(d, k) THEN Return(DictGet(d, k)) ELSE Raise("KeyError")

\* the length left out of the test
SkipLineRX(r, x, length) == ~(Truthy(r) /\ Truthy(x))

\* the test of _create_lines line 44
SkipLine(r, x, length) == ~(Truthy(r) /\ Truthy(x) /\ Truthy(length))

\* the columns _create_lines reads from every row, lines 37 to 43
LineColumns == {"From", "To", "R", "X", "Length", "Ampacity", "Line"}

\* row.get(c, default)
Cell(row, c, default) == IF c \in DOMAIN row THEN row[c] ELSE default

\* every cell read with a default: a missing parameter counts as 0
RECURSIVE CreateLinesDefaults(_, _, _, _)
CreateLinesDefaults(sheet, i, d, lines) ==
    IF i > Len(sheet) THEN Return(lines)
    ELSE LET row == sheet[i]
             fb  == LookupBus(d, Str(Cell(row, "From", 0)))
             tb  == LookupBus(d, Str(Cell(row, "To", 0)))
         IN  IF SkipLine(Cell(row, "R", Num(0)), Cell(row, "X", Num(0)),
                         Cell(row, "Length", Num(0)))
             THEN CreateLinesDefaults(sheet, i + 1, d, lines)
             ELSE IF ~fb.ok THEN Raise(fb.err)
             ELSE IF ~tb.ok THEN Raise(tb.err)
             ELSE CreateLinesDefaults(sheet, i + 1, d,
                    Append(lines, [from_bus |-> fb.val,
                                   to_bus |-> tb.val,
                                   length_km |-> Div1000(row.Length),
                                   r_ohm_per_km |-> row.R,
                                   x_ohm_per_km |-> row.X,
                                   max_i_ka |-> Div1000(Cell(row, "Ampacity", Num(0))),
                                   name |-> Cell(row, "Line", "")]))

\* _create_lines: the line table, the KeyError of a column the sheet does
\* not have, or the KeyError of an unknown endpoint
RECURSIVE CreateLines(_, _, _, _)
CreateLines(sheet, i, d, lines) ==
    IF i > Len(sheet) THEN Return(lines)
    ELSE IF ~(LineColumns \subseteq DOMAIN sheet[i]) THEN Raise("KeyError")
    ELSE LET row == sheet[i]
             fb  == LookupBus(d, Str(row.From))
             tb  == LookupBus(d, Str(row.To))
         IN  IF SkipLine(row.R, row.X, row.Length)
             THEN CreateLines(sheet, i + 1, d, lines)
             ELSE IF ~fb.ok THEN Raise(fb.err)
             ELSE IF ~tb.ok THEN Raise(tb.err)
             ELSE CreateLines(sheet, i + 1, d,
                    Append(lines, [from_bus |-> fb.val,
                                   to_bus |-> tb.val,
                                   length_km |-> Div1000(row.Length),
                                   r_ohm_per_km |-> row.R,
                                   x_ohm_per_km |-> row.X,
                                   max_i_ka |-> Div1000(row.Ampacity),
                                   name |-> row.Line]))

\* the KeyError of a line swallowed: the network without its lines
CreateNetEmptyTolerant(sheet, ids, d) ==
    LET b == CreateBuses(EmptyNet, ids, d)
        l == CreateLines(sheet, 1, b.buses, <<>>)
    IN  [ok |-> TRUE, buses |-> b.buses,
         net |-> [b.net EXCEPT !.line = IF l.ok THEN l.val ELSE <<>>]]

\* create_net_empty: the network and the dict, or the exception
CreateNetEmpty(sheet, ids, d) ==
    LET b == CreateBuses(EmptyNet, ids, d)
        l == CreateLines(sheet, 1, b.buses, <<>>)
    IN  IF ~l.ok THEN [ok |-> FALSE, err |-> l.err, buses |-> b.buses]
        ELSE [ok |-> TRUE, buses |-> b.buses,
              net |-> [b.net EXCEPT !.line = l.val]]

\* no drop of the old rows
KeepLoads(loads) == loads

\* _clear_loads
ClearLoads(loads) == <<>>

\* the loop left at the first row with an unknown bus
RECURSIVE CreateLoadsBreak(_, _, _, _)
CreateLoadsBreak(loads, rows, i, d) ==
    IF i > Len(rows) THEN loads
    ELSE IF ~DictHas(d, rows[i].bus)
    THEN loads
    ELSE CreateLoadsBreak(Append(loads, [bus |-> DictGet(d, rows[i].bus),
                                         p_mw |-> rows[i].p_mw,
                                         q_mvar |-> rows[i].q_mvar]),
                          rows, i + 1, d)

\* _create_loads: rows with an unknown bus are skipped
RECURSIVE CreateLoads(_, _, _, _)
CreateLoads(loads, rows, i, d) ==
    IF i > Len(rows) THEN loads
    ELSE IF ~DictHas(d, rows[i].bus)
    THEN CreateLoads(loads, rows, i + 1, d)
    ELSE CreateLoads(Append(loads, [bus |-> DictGet(d, rows[i].bus),
                                    p_mw |-> rows[i].p_mw,
                                    q_mvar |-> rows[i].q_mvar]),
                     rows, i + 1, d)

\* the frame P_df[['Bus_ID', hour]] exists only if every row has the column
HasHour(frame, h) == \A i \in 1..Len(frame) : h \in DOMAIN frame[i].col

\* the sign column left out of the product
PMwUnsigned(p_kw, sign) == p_kw \div 1000

\* p_mw and q_mvar of one row of the concatenated frame
PMw(p_kw, sign)  == (p_kw * sign) \div 1000
QMvar(q_kvar)    == q_kvar \div 1000

\* the frame df[['bus', 'p_mw', 'q_mvar']] of set_hourly_loads:
\* active rows, then reactive rows, then production rows
HourlyRows(h, P_df, Q_df, PV_df) ==
    [i \in 1..Len(P_df) |->
        [bus |-> P_df[i].Bus_ID, p_mw |-> PMw(P_df[i].col[h], 1), q_mvar |-> QMvar(0)]]
    \o
    [i \in 1..Len(Q_df) |->
        [bus |-> Q_df[i].Bus_ID, p_mw |-> PMw(0, 1), q_mvar |-> QMvar(Q_df[i].col[h])]]
    \o
    [i \in 1..Len(PV_df) |->
        [bus |-> PV_df[i].Bus_ID, p_mw |-> PMw(PV_df[i].col[h], -1), q_mvar |-> QMvar(0)]]

\* the label looked up before the loads are dropped
SetHourlyLoadsCheckFirst(loads, h, ll, d) ==
    IF ~(HasHour(ll.active_profile_df, h) /\ HasHour(ll.reactive_profile_df, h)
         /\ HasHour(ll.pv_profile_df, h))
    THEN [ok |-> FALSE, err |-> "KeyError", load |-> loads]
    ELSE [ok |-> TRUE,
          load |-> CreateLoads(ClearLoads(loads),
                      HourlyRows(h, ll.active_profile_df, ll.reactive_profile_df,
                                 ll.pv_profile_df), 1, d)]

\* set_hourly_loads: the load table after the call, or the KeyError of a
\* label that is no column, raised after the loads were cleared
SetHourlyLoads(loads, h, ll, d) ==
    LET cleared == ClearLoads(loads)
    IN  IF ~(HasHour(ll.active_profile_df, h) /\ HasHour(ll.reactive_profile_df, h)
             /\ HasHour(ll.pv_profile_df, h))
        THEN [ok |-> FALSE, err |-> "KeyError", load |-> cleared]
        ELSE [ok |-> TRUE,
              load |-> CreateLoads(cleared,
                          HourlyRows(h, ll.active_profile_df, ll.reactive_profile_df,
                                     ll.pv_profile_df), 1, d)]

\* create_net_empty of the first version of the class (src/loadflow.py):
\* the external grid goes on node_df.iloc[0], lines are skipped on == 0
LegacySkipLine(r, x, length) == IsZero(length) \/ IsZero(r) \/ IsZero(x)

RECURSIVE LegacyCreateLines(_, _, _, _)
LegacyCreateLines(sheet, i, d, lines) ==
    IF i > Len(sheet) THEN Return(lines)
    ELSE LET row == sheet[i]
             fb  == LookupBus(d, Str(row.From))
             tb  == LookupBus(d, Str(row.To))
         IN  IF LegacySkipLine(row.R, row.X, row.Length)
             THEN LegacyCreateLines(sheet, i + 1, d, lines)
             ELSE IF ~fb.ok THEN Raise(fb.err)
             ELSE IF ~tb.ok THEN Raise(tb.err)
             ELSE LegacyCreateLines(sheet, i + 1, d,
                    Append(lines, [from_bus |-> fb.val,
                                   to_bus |-> tb.val,
                                   length_km |-> Div1000(row.Length),
                                   r_ohm_per_km |-> row.R,
                                   x_ohm_per_km |-> row.X,
                                   max_i_ka |-> Div1000(row.Ampacity),
                                   name |-> row.Line]))

LegacyCreateNetEmpty(sheet, ids) ==
    LET b == CreateBusLoop(ids, 1, <<>>, <<>>)
        l == LegacyCreateLines(sheet, 1, b.buses, <<>>)
    IN  IF ids = <<>> THEN [ok |-> FALSE, err |-> "IndexError", buses |-> b.buses]
        ELSE IF ~l.ok THEN [ok |-> FALSE, err |-> l.err, buses |-> b.buses]
        ELSE [ok |-> TRUE, buses |-> b.buses,
              net |-> [EmptyNet EXCEPT
                         !.bus = b.bus,
                         !.ext_grid = <<[bus |-> DictGet(b.buses, ids[1]),
                                         name |-> ids[1]]>>,
                         !.line = l.val]]

\* run: pandapower's runpp either converges and writes the results of the
\* loads it was given, or raises; a network without external grid cannot
\* be solved
SolverOutcomes(n) == IF n.ext_grid = <<>> THEN {FALSE} ELSE {TRUE, FALSE}

RunResult(n, converged) ==
    IF converged THEN [ok |-> TRUE, load |-> n.load]
    ELSE [ok |-> FALSE, load |-> <<>>]

\* the buses one line away from a bus of S, and S
Linked(n, S) ==
    S \cup {b \in 0..(Len(n.bus) - 1) :
              \E k \in 1..Len(n.line) :
                  \/ n.line[k].from_bus = b /\ n.line[k].to_bus \in S
                  \/ n.line[k].to_bus = b /\ n.line[k].from_bus \in S}

RECURSIVE Closure(_, _, _)
Closure(n, S, k) == IF k = 0 THEN S ELSE Closure(n, Linked(n, S), k - 1)

\* the buses pandapower finds connected to an external grid; it reports
\* NaN results for every other bus and for the lines between them
Supplied(n) ==
    Closure(n, {n.ext_grid[i].bus : i \in 1..Len(n.ext_grid)}, Len(n.bus))

\* sum of a column over the loads of the bus of index b
RECURSIVE LoadSum(_, _, _, _)
LoadSum(loads, i, b, col) ==
    IF i > Len(loads) THEN 0
    ELSE (IF loads[i].bus = b THEN loads[i][col] ELSE 0) + LoadSum(loads, i + 1, b, col)

----------------------------------------------------------------------------
(* Inputs *)

\* the place of a bus, north and east of the station in metres: the buses
\* of a sheet stand 100 m apart unless the sheet says otherwise
SiteOf(id) == <<100 * id, 0>>

MkRow(ft, par, pk) ==
    [From |-> ft[1], To |-> ft[2], R |-> par[1], X |-> par[2], Length |-> par[3],
     Ampacity |-> Num(200 * Scale), Line |-> "L", PLmax |-> pk[1], QLmax |-> pk[2],
     Pg |-> pk[3], From_XY |-> SiteOf(ft[1]), To_XY |-> SiteOf(ft[2])]

Ohm03 == Num(3 * (Scale \div 10))
Len100 == Num(100 * Scale)
Len50 == Num(50 * Scale)

\* sheets of at most MaxRows rows; row i carries the line name "L<i>"
SheetsOf(rowSet) ==
    UNION {{[i \in 1..n |-> [f[i] EXCEPT !.Line = "L" \o ToString(i)]] :
                f \in [1..n -> rowSet]} : n \in 0..MaxRows}

\* rows of the orchestration runs: a feeder 1-2-3 with or without loads,
\* one of its lines a placeholder
RunRows ==
    {MkRow(<<1, 2>>, <<Ohm03, Ohm03, Len100>>, <<0, 0, 0>>),
     MkRow(<<1, 2>>, <<Ohm03, Ohm03, Len100>>, <<10, 3, 5>>),
     MkRow(<<2, 3>>, <<Num(0), Num(0), Len50>>, <<10, 3, 0>>),
     MkRow(<<2, 3>>, <<Ohm03, Ohm03, Len50>>, <<0, 0, 5>>),
     MkRow(<<3, 1>>, <<Ohm03, Ohm03, Len50>>, <<4, 0, 0>>)}

\* rows of the assembly runs: lines along the feeder, one of them
\* reversed, each parameter zero, present or missing
EndPairs == {<<a, a + 1>> : a \in 1..(MaxBusId - 1)} \cup {<<2, 1>>}

ParamCases ==
    {<<Ohm03, Ohm03, Len100>>,
     <<Num(0), Ohm03, Len100>>, <<Ohm03, Num(0), Len100>>, <<Ohm03, Ohm03, Num(0)>>,
     <<NaN, Ohm03, Len100>>, <<Ohm03, NaN, Len100>>, <<Ohm03, Ohm03, NaN>>,
     <<NaN, Num(0), Len100>>}

AsmRows == {MkRow(ft, par, <<10, 3, 0>>) : ft \in EndPairs, par \in ParamCases}

Prefixes(s) == {SubSeq(s, 1, n) : n \in 0..Len(s)}

\* node_df["ID"] of a direct caller: the ids of the sheet, or only the first of them
NodeArgs(sheet) ==
    Prefixes([k \in 1..Len(UniqueNodes(sheet, 1, <<>>)) |->
                 Str(UniqueNodes(sheet, 1, <<>>)[k])])

\* the quantile table: one row per hour label, seven breakpoints in kW
QFactor == <<2, 4, 6, 10, 14, 18, 20>>

StatsTable ==
    [j \in 1..HoursPerDay |->
        [hour |-> HourLabels[j],
         q |-> [k \in 1..7 |->
                  profiles.residential_weekday[j] * QFactor[k] * (Scale \div 1000)]]]

DefaultCfg(stoch) ==
    [profile_type |-> "residential_weekday", pv_profile_type |-> "summer",
     add_noise |-> FALSE, noise_level |-> 10, stochastic |-> stoch, seed |-> 0]

NoFrames == [built |-> FALSE, active_profile_df |-> <<>>, reactive_profile_df |-> <<>>,
             pv_profile_df |-> <<>>, load_df |-> <<>>]

Frames(g, df) ==
    [built |-> TRUE, active_profile_df |-> g.active_profile_df,
     reactive_profile_df |-> g.reactive_profile_df,
     pv_profile_df |-> g.pv_profile_df, load_df |-> df]

\* the frames a caller of LoadFlow holds for set_hourly_loads: those of a
\* generator built on the load rows of the sheet, if it has any
CallerFrames(sheet, stats, c) ==
    LET ld == MakeLoadDf(sheet)
        g  == GeneratorInit(ld.val, stats, c, 0)
    IN  IF ld.ok /\ g.ok THEN Frames(g.val, ld.val) ELSE NoFrames

NoCall == [kind |-> "none", hour_start |-> 0, hour_end |-> 0, save |-> FALSE]

\* line_hist and bus_hist are the series collected by the static map;
\* max_loading, loading_series, max_voltage and voltage_series are the maps
\* plot_static_results draws from
NoOut == [map_created |-> FALSE, delivered |-> <<>>, aggregated |-> FALSE,
          plotted |-> FALSE, control |-> FALSE, saved |-> FALSE,
          line_hist |-> <<>>, bus_hist |-> <<>>,
          max_loading |-> <<>>, loading_series |-> <<>>,
          max_voltage |-> <<>>, voltage_series |-> <<>>]

InitRest ==
    /\ gen = NoFrames
    /\ buses = <<>>
    /\ net = EmptyNet
    /\ pc = "new"
    /\ err = ""
    /\ hours = <<>>
    /\ hr = 0
    /\ call = NoCall
    /\ log = <<>>
    /\ out = NoOut
    /\ ncalls = 0
    /\ node_df = <<>>
    /\ line_df = <<>>
    /\ synth = <<>>

\* a PowerFlowViz object about to be constructed on a sheet, or a LoadFlow
\* about to be used by a caller of its own
Init ==
    /\ xls \in SheetsOf(RunRows)
    /\ entry \in {"viz", "direct"}
    /\ node_arg \in IF entry = "direct" THEN NodeArgs(xls) ELSE {<<>>}
    /\ cfg \in {DefaultCfg(st) : st \in BOOLEAN}
    /\ df_stats = StatsTable
    /\ np_random \in {1, 9}
    /\ load_list = IF entry = "direct" THEN CallerFrames(xls, df_stats, cfg) ELSE NoFrames
    /\ InitRest

----------------------------------------------------------------------------
(* Construction *)

Fail(e) ==
    /\ pc' = "failed"
    /\ err' = e

\* PowerFlowViz.__post_init__ / _set_net: prepare_all (loads and profiles,
\* nodes, lines), then the LoadFlow builder and its empty network
PostInit ==
    /\ entry = "viz"
    /\ pc = "new"
    /\ LET ld == MakeLoadDf(xls)
           g  == GeneratorInit(ld.val, df_stats, cfg, np_random)
           nd == MakeNodeDf(xls)
           lf == MakeLineDf(xls)
           c  == CreateNetEmpty(xls, IdsOf(nd.val), <<>>)
       IN  IF ~ld.ok
           THEN Fail(ld.err)
                /\ UNCHANGED <<np_random, gen, load_list, node_df, line_df, buses, net>>
           ELSE IF ~g.ok
           THEN Fail(g.err) /\ np_random' = g.rng
                /\ UNCHANGED <<gen, load_list, node_df, line_df, buses, net>>
           ELSE IF ~nd.ok \/ ~lf.ok
           THEN Fail(IF ~nd.ok THEN nd.err ELSE lf.err)
                /\ np_random' = g.rng /\ gen' = Frames(g.val, ld.val)
                /\ UNCHANGED <<load_list, node_df, line_df, buses, net>>
           ELSE IF ~c.ok
           THEN Fail(c.err) /\ np_random' = g.rng /\ gen' = Frames(g.val, ld.val)
                /\ load_list' = Frames(g.val, ld.val)
                /\ node_df' = nd.val /\ line_df' = lf.val /\ buses' = c.buses
                /\ UNCHANGED net
           ELSE /\ pc' = "ready"
                /\ err' = ""
                /\ np_random' = g.rng
                /\ gen' = Frames(g.val, ld.val)
                /\ load_list' = Frames(g.val, ld.val)
                /\ node_df' = nd.val
                /\ line_df' = lf.val
                /\ buses' = c.buses
                /\ net' = c.net
    /\ UNCHANGED <<synth, xls, node_arg, entry, cfg, df_stats,
                   hours, hr, call, log, out, ncalls>>

\* a caller of LoadFlow: LoadFlow(node_df = node_arg).create_net_empty()
CreateNet ==
    /\ entry = "direct"
    /\ pc = "new"
    /\ LET c == CreateNetEmpty(xls, node_arg, <<>>)
       IN  /\ buses' = c.buses
           /\ IF c.ok
              THEN pc' = "ready" /\ err' = "" /\ net' = c.net
              ELSE Fail(c.err) /\ UNCHANGED net
    /\ UNCHANGED <<node_df, line_df, synth, xls, node_arg, entry, cfg, df_stats,
                   np_random, gen, load_list,
                   hours, hr, call, log, out, ncalls>>

\* the same caller with the first version of the class
LegacyCreateNet ==
    /\ entry = "legacy"
    /\ pc = "new"
    /\ LET c == LegacyCreateNetEmpty(xls, node_arg)
       IN  /\ buses' = c.buses
           /\ IF c.ok
              THEN pc' = "ready" /\ err' = "" /\ net' = c.net
              ELSE Fail(c.err) /\ UNCHANGED net
    /\ UNCHANGED <<node_df, line_df, synth, xls, node_arg, entry, cfg, df_stats,
                   np_random, gen, load_list,
                   hours, hr, call, log, out, ncalls>>

----------------------------------------------------------------------------
(* PowerFlowViz: the hourly loop and its two callers *)

HourStarts == {0 - 1, 0, 22}
HourEnds   == {2, 24, 25}

\* position after the loop header of _iterate_hours
LoopNext(hs) == IF hs = <<>> THEN "finish" ELSE "set"

\* run() wrapped in a try/except that goes on
AfterRunSwallow(converged) == "apply"

\* position after run(): an exception of the solver leaves the loop and the call
AfterRun(converged) == IF converged THEN "apply" ELSE "aborted"

\* generate_time_slider_map, up to the loop: the map is created, the hours
\* are list(range(hour_start, hour_end))
GenerateTimeSliderMap(hs, he, sv) ==
    /\ entry = "viz"
    /\ pc \in {"ready", "done", "aborted"}
    /\ ncalls < MaxCalls
    /\ ncalls' = ncalls + 1
    /\ call' = [kind |-> "slider", hour_start |-> hs, hour_end |-> he, save |-> sv]
    /\ hours' = Range(hs, he)
    /\ log' = <<>>
    /\ out' = [NoOut EXCEPT !.map_created = TRUE]
    /\ err' = ""
    /\ pc' = LoopNext(hours')
    /\ UNCHANGED <<node_df, line_df, synth, xls, node_arg, entry, cfg, df_stats,
                   np_random, gen, load_list,
                   buses, net, hr>>

\* generate_static_summary_map, up to the loop: all 24 hours
GenerateStaticSummaryMap(sv) ==
    /\ entry = "viz"
    /\ pc \in {"ready", "done", "aborted"}
    /\ ncalls < MaxCalls
    /\ ncalls' = ncalls + 1
    /\ call' = [kind |-> "static", hour_start |-> 0, hour_end |-> HoursPerDay,
                save |-> sv]
    /\ hours' = Range(0, HoursPerDay)
    /\ log' = <<>>
    /\ out' = [NoOut EXCEPT !.map_created = TRUE]
    /\ err' = ""
    /\ pc' = LoopNext(hours')
    /\ UNCHANGED <<node_df, line_df, synth, xls, node_arg, entry, cfg, df_stats,
                   np_random, gen, load_list,
                   buses, net, hr>>

\* loop body, line 104: set_hourly_loads for the next hour
IterSetHourlyLoads ==
    /\ pc = "set"
    /\ LET h == Head(hours)
           r == SetHourlyLoads(net.load, HrStr(h), load_list, buses)
       IN  /\ hr' = h
           /\ hours' = Tail(hours)
           /\ net' = [net EXCEPT !.load = r.load]
           /\ IF r.ok
              THEN /\ pc' = "run"
                   /\ log' = Append(log, <<"set", h>>)
                   /\ UNCHANGED err
              ELSE /\ pc' = "aborted"
                   /\ log' = Append(log, <<"keyerror", h>>)
                   /\ err' = r.err
    /\ UNCHANGED <<node_df, line_df, synth, xls, node_arg, entry, cfg, df_stats,
                   np_random, gen, load_list,
                   buses, call, out, ncalls>>

\* loop body, line 105: the solver
IterRun ==
    /\ pc = "run"
    /\ \E converged \in SolverOutcomes(net) :
        /\ net' = [net EXCEPT !.res = RunResult(net, converged)]
        /\ pc' = AfterRun(converged)
        /\ log' = Append(log, <<IF converged THEN "run" ELSE "fail", hr>>)
        /\ err' = IF converged THEN err ELSE "LoadflowNotConverged"
    /\ UNCHANGED <<node_df, line_df, synth, xls, node_arg, entry, cfg, df_stats,
                   np_random, gen, load_list,
                   buses, hours, hr, call, out, ncalls>>

\* res_bus.p_mw != 0 or res_bus.q_mvar != 0 for the bus of index b: the
\* bus draws or injects power, or it is the reference bus of a network
\* that does, or its result is NaN because it is off the grid
PowerNonZero(n, b) ==
    \/ b \notin Supplied(n)
    \/ LoadSum(n.load, 1, b, "p_mw") # 0
    \/ LoadSum(n.load, 1, b, "q_mvar") # 0
    \/ /\ \E e \in 1..Len(n.ext_grid) : n.ext_grid[e].bus = b
       /\ \E b2 \in Supplied(n) :
             LoadSum(n.load, 1, b2, "p_mw") # 0 \/ LoadSum(n.load, 1, b2, "q_mvar") # 0

\* _prepare_coordinates_for_plot: the nodes of such buses are put back on
\* their original coordinates, in the node_df the visualizer was given
PrepareCoordinatesForPlot(nodes, n) ==
    [k \in 1..Len(nodes) |->
        IF \E b \in 1..Len(n.bus) :
              n.bus[b].name = nodes[k].ID /\ PowerNonZero(n, b - 1)
        THEN [nodes[k] EXCEPT !.latitude = nodes[k].latitude_original,
                              !.longitude = nodes[k].longitude_original]
        ELSE nodes[k]]

\* loop body, line 106: the consumer receives the solved network of the
\* hour; _plot, the consumer of the time-slider map, calls plot_results
IterApply ==
    /\ pc = "apply"
    /\ log' = Append(log, <<"apply", hr>>)
    /\ out' = [out EXCEPT !.delivered =
                  Append(@, [hour |-> HrStr(hr), res |-> net.res])]
    /\ node_df' = IF call.kind = "slider"
                  THEN PrepareCoordinatesForPlot(node_df, net) ELSE node_df
    /\ pc' = LoopNext(hours)
    /\ UNCHANGED <<line_df, synth, xls, node_arg, entry, cfg, df_stats,
                   np_random, gen, load_list,
                   buses, net, err, hours, hr, call, ncalls>>

\* after the loop: the static map reduces and plots the day; both add the
\* control and save on request
Finish ==
    /\ pc = "finish"
    /\ out' = [out EXCEPT !.aggregated = (call.kind = "static"),
                          !.plotted = (call.kind = "static"),
                          !.control = TRUE,
                          !.saved = call.save]
    /\ pc' = "done"
    /\ UNCHANGED <<node_df, line_df, synth, xls, node_arg, entry, cfg, df_stats,
                   np_random, gen, load_list,
                   buses, net, err, hours, hr, call, log, ncalls>>

----------------------------------------------------------------------------
(* LoadFlow used directly *)

DirectHours == {0, 9, 17}

\* set_hourly_loads(net, hour, P_df, Q_df, PV_df) with the frames of the generator
DirectSetHourlyLoads(h) ==
    /\ entry = "direct"
    /\ pc \in {"ready", "populated"}
    /\ load_list.built
    /\ LET r == SetHourlyLoads(net.load, HrStr(h), load_list, buses)
       IN  /\ net' = [net EXCEPT !.load = r.load]
           /\ hr' = h
           /\ pc' = IF r.ok THEN "populated" ELSE "ready"
           /\ err' = IF r.ok THEN "" ELSE r.err
    /\ UNCHANGED <<node_df, line_df, synth, xls, node_arg, entry, cfg, df_stats,
                   np_random, gen, load_list,
                   buses, hours, call, log, out, ncalls>>

\* run(net)
DirectRun ==
    /\ entry = "direct"
    /\ pc \in {"ready", "populated"}
    /\ \E converged \in SolverOutcomes(net) :
        /\ net' = [net EXCEPT !.res = RunResult(net, converged)]
        /\ err' = IF converged THEN "" ELSE "LoadflowNotConverged"
    /\ pc' = "ready"
    /\ UNCHANGED <<node_df, line_df, synth, xls, node_arg, entry, cfg, df_stats,
                   np_random, gen, load_list,
                   buses, hours, hr, call, log, out, ncalls>>

----------------------------------------------------------------------------
Next ==
    \/ PostInit
    \/ CreateNet
    \/ \E hs \in HourStarts, he \in HourEnds, sv \in BOOLEAN :
          GenerateTimeSliderMap(hs, he, sv)
    \/ \E sv \in BOOLEAN : GenerateStaticSummaryMap(sv)
    \/ IterSetHourlyLoads
    \/ IterRun
    \/ IterApply
    \/ Finish
    \/ \E h \in DirectHours : DirectSetHourlyLoads(h)
    \/ DirectRun

Spec == Init /\ [][Next]_vars

----------------------------------------------------------------------------
(* Assembly alone, on sheets with every kind of line row, by PowerFlowViz, *)
(* by a caller of LoadFlow and by a caller of the first version            *)

InitAsm ==
    /\ xls \in SheetsOf(AsmRows)
    /\ entry \in {"viz", "direct", "legacy"}
    /\ node_arg \in IF entry = "viz" THEN {<<>>} ELSE NodeArgs(xls)
    /\ cfg = DefaultCfg(FALSE)
    /\ df_stats = StatsTable
    /\ np_random = 1
    /\ load_list = NoFrames
    /\ InitRest

NextAsm ==
    \/ PostInit
    \/ CreateNet
    \/ LegacyCreateNet

SpecAsm == InitAsm /\ [][NextAsm]_vars

----------------------------------------------------------------------------
(* The generator alone, with every choice of its arguments *)

ProfileNames == {"residential_weekday", "residential_weekend", "office",
                 "industry", "hospital", "commercial"}

PvNames == {"summer", "winter", "night", "spring"}

\* the last sheet has a capacitive load point: a negative reactive peak
SynthSheets ==
    {<<MkRow(<<1, 2>>, <<Ohm03, Ohm03, Len100>>, <<10, 3, 5>>)>>,
     <<MkRow(<<1, 2>>, <<Ohm03, Ohm03, Len100>>, <<10, 3, 0>>),
       MkRow(<<2, 3>>, <<Ohm03, Ohm03, Len50>>, <<0, 0, 5>>)>>,
     <<MkRow(<<1, 2>>, <<Ohm03, Ohm03, Len100>>, <<10, -3, 5>>)>>}

\* a quantile table around a zero median: the low breakpoints are negative
StatsSigned ==
    [j \in 1..HoursPerDay |->
        [hour |-> HourLabels[j],
         q |-> [k \in 1..7 |-> StatsTable[j].q[k] - StatsTable[j].q[4]]]]

\* the quantile tables handed to the generator: the whole day, a day
\* without its last hour, a day with a 25th label, the signed one
StatsTables ==
    {StatsTable,
     SubSeq(StatsTable, 1, HoursPerDay - 1),
     Append(StatsTable, [hour |-> HrStr(HoursPerDay), q |-> StatsTable[1].q]),
     StatsSigned}

InitSynth ==
    /\ xls \in SynthSheets
    /\ entry = "synth"
    /\ node_arg = <<>>
    /\ cfg \in [profile_type : ProfileNames, pv_profile_type : PvNames,
                add_noise : BOOLEAN, noise_level : {10, 60},
                stochastic : BOOLEAN, seed : {0, 7}]
    /\ df_stats \in StatsTables
    /\ np_random \in {1, 9}
    /\ load_list = NoFrames
    /\ InitRest

\* DailyLoadProfileGenerator(df, df_stats, ...) on the load rows of the sheet;
\* a process may construct the generator again with the same arguments, the
\* numpy generator then stands where the run before left it
SynthConstruct ==
    /\ entry = "synth"
    /\ pc \in {"new", "built"}
    /\ ncalls < MaxCalls
    /\ ncalls' = ncalls + 1
    /\ LET g == GeneratorInit(LoadRows(xls), df_stats, cfg, np_random)
       IN  /\ np_random' = g.rng
           /\ IF g.ok
              THEN pc' = "built" /\ err' = "" /\ gen' = Frames(g.val, LoadRows(xls))
              ELSE Fail(g.err) /\ UNCHANGED gen
    /\ UNCHANGED <<node_df, line_df, synth, xls, node_arg, entry, cfg, df_stats,
                   load_list, buses, net,
                   hours, hr, call, log, out>>

NextSynth == SynthConstruct

SpecSynth == InitSynth /\ [][NextSynth]_vars

----------------------------------------------------------------------------
(* The static summary map: the solved values of each hour, their           *)
(* collection into per-element series and the daily extrema.               *)
(* Loadings are in whole percent, voltages in thousandths of p.u.          *)

\* the hours at which the solver's result may have an undefined row or an
\* extreme value of its own: the first, a middle and the last of the day
VariedHours == {0, 12, 23}

PlainOutcome == [nan_line |-> FALSE, nan_bus |-> FALSE, peak |-> FALSE]

HourOutcomes(h) ==
    IF h \in VariedHours
    THEN [nan_line : BOOLEAN, nan_bus : BOOLEAN, peak : BOOLEAN]
    ELSE {PlainOutcome}

\* res_line.loading_percent of line k at hour h
LoadingOf(n, k, h, o) ==
    IF n.line[k].from_bus \notin Supplied(n) \/ (k = 1 /\ o.nan_line) THEN NaN
    ELSE IF k = 1 /\ o.peak THEN Num(130)
    ELSE Num(20 + h + k)

\* res_bus.vm_pu of the bus of index b at hour h
VmOf(n, b, h, o) ==
    IF b \notin Supplied(n) \/ (b = 1 /\ o.nan_bus) THEN NaN
    ELSE IF b = 1 /\ o.peak THEN Num(900)
    ELSE Num(1000 - h - b)

\* the result tables runpp leaves in the network
SolvedResult(n, h, converged, o) ==
    IF converged
    THEN [ok |-> TRUE, load |-> n.load,
          res_line |-> [k \in 1..Len(n.line) |-> LoadingOf(n, k, h, o)],
          res_bus |-> [b \in 1..Len(n.bus) |-> VmOf(n, b - 1, h, o)]]
    ELSE [ok |-> FALSE, load |-> <<>>, res_line |-> <<>>, res_bus |-> <<>>]

\* node_with_power_unique of make_load_df: the bus ids of the four frames
NodeWithPower(ll) ==
    UNION {{f[i].Bus_ID : i \in 1..Len(f)} :
              f \in {ll.active_profile_df, ll.reactive_profile_df,
                      ll.pv_profile_df, ll.load_df}}

\* every bus is collected
AnyNode(name, ll) == TRUE

\* r["name"] in self.node_with_power_unique
InNodeWithPower(name, ll) == name \in NodeWithPower(ll)

\* hist.setdefault(name, []).append(value) for each row in turn
RECURSIVE CollectRows(_, _, _)
CollectRows(hist, rows, i) ==
    IF i > Len(rows) THEN hist
    ELSE CollectRows(
            DictSet(hist, rows[i].name,
                    Append(IF DictHas(hist, rows[i].name)
                           THEN DictGet(hist, rows[i].name) ELSE <<>>,
                           rows[i].value)),
            rows, i + 1)

\* a > b and a < b of two floats: false as soon as one is NaN
Gt(a, b) == ~a.nan /\ ~b.nan /\ a.v > b.v
Lt(a, b) == ~a.nan /\ ~b.nan /\ a.v < b.v

\* max(v) and min(v) of a list: the first item, replaced by each later
\* item that compares greater (smaller) than the one held
RECURSIVE PyMax(_, _, _)
PyMax(v, i, m) ==
    IF i > Len(v) THEN m ELSE PyMax(v, i + 1, IF Gt(v[i], m) THEN v[i] ELSE m)

RECURSIVE PyMin(_, _, _)
PyMin(v, i, m) ==
    IF i > Len(v) THEN m ELSE PyMin(v, i + 1, IF Lt(v[i], m) THEN v[i] ELSE m)

\* {n: max(v) for n, v in line_hist.items()}, {n: min(v) ...}
MaxLoad(hist) ==
    [e \in 1..Len(hist) |-> [key |-> hist[e].key,
                             val |-> PyMax(hist[e].val, 2, hist[e].val[1])]]

MinVolt(hist) ==
    [e \in 1..Len(hist) |-> [key |-> hist[e].key,
                             val |-> PyMin(hist[e].val, 2, hist[e].val[1])]]

\* the extrema kept as they are
KeepUndefined(d) == d

\* {k: v for k, v in d.items() if pd.notna(v)}
DropUndefined(d) == SelectSeq(d, LAMBDA e : ~e.val.nan)

\* {k: v for k, v in d.items() if pd.notna(v).all()}
DropBrokenSeries(d) ==
    SelectSeq(d, LAMBDA e : \A i \in 1..Len(e.val) : ~e.val[i].nan)

AggSheets ==
    {<<[MkRow(<<1, 2>>, <<Ohm03, Ohm03, Len100>>, <<10, 3, 5>>) EXCEPT !.Line = "L1"],
       [MkRow(<<2, 3>>, <<Ohm03, Ohm03, Len50>>, <<0, 0, 0>>) EXCEPT !.Line = "L2"]>>,
     <<[MkRow(<<1, 2>>, <<Ohm03, Ohm03, Len100>>, <<10, 3, 0>>) EXCEPT !.Line = "L1"],
       [MkRow(<<2, 3>>, <<Num(0), Num(0), Len50>>, <<10, 3, 0>>) EXCEPT !.Line = "L2"]>>,
     <<[MkRow(<<1, 2>>, <<Ohm03, Ohm03, Len100>>, <<0, 0, 5>>) EXCEPT !.Line = "L1"],
       [MkRow(<<3, 1>>, <<Ohm03, Ohm03, Len50>>, <<4, 0, 0>>) EXCEPT !.Line = "L2"]>>,
     <<[MkRow(<<1, 2>>, <<Ohm03, Ohm03, Len100>>, <<10, 3, 5>>) EXCEPT !.Line = "L1"],
       [MkRow(<<3, 4>>, <<Ohm03, Ohm03, Len50>>, <<10, 3, 0>>) EXCEPT !.Line = "L2"]>>}

InitAgg ==
    /\ xls \in AggSheets
    /\ entry = "viz"
    /\ node_arg = <<>>
    /\ cfg \in {DefaultCfg(st) : st \in BOOLEAN}
    /\ df_stats = StatsTable
    /\ np_random = 1
    /\ load_list = NoFrames
    /\ InitRest

\* the first generate_static_summary_map of a PowerFlowViz object
FirstStaticSummaryMap(sv) ==
    /\ ncalls = 0
    /\ GenerateStaticSummaryMap(sv)

\* loop body, line 105, with the result tables the solver writes
SolveHour ==
    /\ pc = "run"
    /\ \E converged \in SolverOutcomes(net), o \in HourOutcomes(hr) :
        /\ net' = [net EXCEPT !.res = SolvedResult(net, hr, converged, o)]
        /\ pc' = AfterRun(converged)
        /\ log' = Append(log, <<IF converged THEN "run" ELSE "fail", hr>>)
        /\ err' = IF converged THEN err ELSE "LoadflowNotConverged"
    /\ UNCHANGED <<node_df, line_df, synth, xls, node_arg, entry, cfg, df_stats,
                   np_random, gen, load_list,
                   buses, hours, hr, call, out, ncalls>>

\* loop body, line 106, with _collect as apply_fn: every line's loading is
\* appended to its series, a bus's voltage only if the bus is in
\* node_with_power_unique
Collect ==
    /\ pc = "apply"
    /\ LET rl == [k \in 1..Len(net.line) |->
                    [name |-> net.line[k].name, value |-> net.res.res_line[k]]]
           rb == SelectSeq([b \in 1..Len(net.bus) |->
                              [name |-> net.bus[b].name, value |-> net.res.res_bus[b]]],
                           LAMBDA r : InNodeWithPower(r.name, load_list))
       IN  out' = [out EXCEPT !.line_hist = CollectRows(@, rl, 1),
                              !.bus_hist = CollectRows(@, rb, 1)]
    /\ log' = Append(log, <<"apply", hr>>)
    /\ pc' = LoopNext(hours)
    /\ UNCHANGED <<node_df, line_df, synth, xls, node_arg, entry, cfg, df_stats,
                   np_random, gen, load_list,
                   buses, net, err, hours, hr, call, ncalls>>

\* after the loop: the extrema, then plot_static_results, which keeps the
\* defined extrema and the series without an undefined value
StaticFinish ==
    /\ pc = "finish"
    /\ out' = [out EXCEPT !.aggregated = TRUE,
                          !.max_loading = DropUndefined(MaxLoad(out.line_hist)),
                          !.loading_series = DropBrokenSeries(out.line_hist),
                          !.max_voltage = DropUndefined(MinVolt(out.bus_hist)),
                          !.voltage_series = DropBrokenSeries(out.bus_hist),
                          !.plotted = TRUE,
                          !.control = TRUE,
                          !.saved = call.save]
    /\ pc' = "done"
    /\ UNCHANGED <<node_df, line_df, synth, xls, node_arg, entry, cfg, df_stats,
                   np_random, gen, load_list,
                   buses, net, err, hours, hr, call, log, ncalls>>

NextAgg ==
    \/ PostInit
    \/ \E sv \in BOOLEAN : FirstStaticSummaryMap(sv)
    \/ IterSetHourlyLoads
    \/ SolveHour
    \/ Collect
    \/ StaticFinish

SpecAgg == InitAgg /\ [][NextAgg]_vars

----------------------------------------------------------------------------
(* The interpolation of one draw, line 83 of _generate_profile_df, for any *)
(* hour of any table and any draw u in [0, 1], u in hundredths             *)

Draws == 0..100

InitInterp ==
    /\ xls = <<>>
    /\ entry = "interp"
    /\ node_arg = <<>>
    /\ cfg = DefaultCfg(TRUE)
    /\ df_stats \in StatsTables
    /\ np_random = 0
    /\ load_list = NoFrames
    /\ InitRest

\* value = np.interp(U[i, j], quantile_probs, q_vals) for the row of hour h
InterpolateDraw(j, u) ==
    /\ entry = "interp"
    /\ pc = "new"
    /\ j \in 1..Len(df_stats)
    /\ hr' = j
    /\ out' = [out EXCEPT !.delivered =
                  <<[hour |-> df_stats[j].hour, u |-> u,
                     value |-> Interp(u, quantile_probs,
                                      StatsRow(df_stats, df_stats[j].hour).q)]>>]
    /\ pc' = "drawn"
    /\ UNCHANGED <<node_df, line_df, synth, xls, node_arg, entry, cfg, df_stats,
                   np_random, gen, load_list,
                   buses, net, err, hours, call, log, ncalls>>

NextInterp == \E j \in 1..(HoursPerDay + 1), u \in Draws : InterpolateDraw(j, u)

SpecInterp == InitInterp /\ [][NextInterp]_vars

----------------------------------------------------------------------------
(* LoadFlow used by a caller who also sets generators, with the flows the  *)
(* solver finds on a radial network                                        *)

\* _create_generators: the generators are cleared, then one is created
\* per row with a known bus
RECURSIVE CreateGenLoop(_, _, _, _)
CreateGenLoop(gens, rows, i, d) ==
    IF i > Len(rows) THEN gens
    ELSE IF ~DictHas(d, rows[i].bus)
    THEN CreateGenLoop(gens, rows, i + 1, d)
    ELSE CreateGenLoop(Append(gens, [bus |-> DictGet(d, rows[i].bus),
                                     p_mw |-> 0 - rows[i].p_mw,
                                     vm_pu |-> rows[i].vm_pu,
                                     scaling |-> rows[i].scaling_factor,
                                     in_service |-> rows[i].in_service,
                                     name |-> rows[i].ID]),
                       rows, i + 1, d)

\* _clear_generators
ClearGenerators(gens) == <<>>

CreateGenerators(gens, rows, d) == CreateGenLoop(ClearGenerators(gens), rows, 1, d)

\* set_generation_mw: the columns renamed, then _create_generators
SetGenerationMwRows(production) ==
    [i \in 1..Len(production) |->
        [bus |-> production[i].Bus_ID, p_mw |-> production[i].active_power_mw,
         vm_pu |-> production[i].voltage_pu, scaling_factor |-> production[i].scaling,
         in_service |-> production[i].in_service, ID |-> production[i].name]]

\* the network without its line k
WithoutLine(n, k) ==
    [n EXCEPT !.line = SubSeq(n.line, 1, k - 1) \o SubSeq(n.line, k + 1, Len(n.line))]

\* the supplied buses that line k alone connects to the external grid
Downstream(n, k) == Supplied(n) \ Supplied(WithoutLine(n, k))

\* the loads and generators of the bus inject or draw power
Injects(n, b) ==
    \/ LoadSum(n.load, 1, b, "p_mw") # 0
    \/ LoadSum(n.load, 1, b, "q_mvar") # 0
    \/ \E g \in 1..Len(n.gen) :
          n.gen[g].bus = b /\ n.gen[g].in_service /\ n.gen[g].p_mw # 0

\* current flows in line k: the line has no capacitance (c_nf_per_km = 0),
\* so it carries what the buses behind it inject or draw, and nothing else
Carries(n, k) ==
    /\ n.line[k].from_bus \in Supplied(n)
    /\ \E b \in Downstream(n, k) : Injects(n, b)

\* levels of loading the solver may find on a line that carries current
FlowLevels == {1, 2}

\* res_line.loading_percent of line k: NaN off the grid, 0 without current
FlowLoadingOf(n, k, lvl) ==
    IF n.line[k].from_bus \notin Supplied(n) THEN NaN
    ELSE IF Carries(n, k) THEN Num(40 * lvl)
    ELSE Num(0)

\* res_bus.vm_pu of the bus of index b, in thousandths: NaN off the grid,
\* 1.0 on the reference bus and wherever nothing flows
FlowVmOf(n, b, lvl) ==
    IF b \notin Supplied(n) THEN NaN
    ELSE IF \E k \in 1..Len(n.line) : Carries(n, k) /\ b \in Downstream(n, k)
    THEN Num(1000 - 10 * lvl)
    ELSE Num(1000)

\* the result tables runpp leaves in the network, and what it solved
FlowResult(n, converged, lvl) ==
    IF converged
    THEN [ok |-> TRUE, load |-> n.load, gen |-> n.gen,
          res_line |-> [k \in 1..Len(n.line) |-> FlowLoadingOf(n, k, lvl)],
          res_bus |-> [b \in 1..Len(n.bus) |-> FlowVmOf(n, b - 1, lvl)]]
    ELSE [ok |-> FALSE, load |-> <<>>, gen |-> <<>>, res_line |-> <<>>,
          res_bus |-> <<>>]

\* the three-bus feeder ref(1) - A(2) - B(3): line A-B a placeholder row
\* with the load at B, the same with a real line A-B, and the load at A
ExampleSheets ==
    {<<[MkRow(<<1, 2>>, <<Ohm03, Ohm03, Len100>>, <<0, 0, 0>>) EXCEPT !.Line = "L1"],
       [MkRow(<<2, 3>>, <<Num(0), Num(0), Len50>>, <<10, 3, 0>>) EXCEPT !.Line = "L2"]>>,
     <<[MkRow(<<1, 2>>, <<Ohm03, Ohm03, Len100>>, <<0, 0, 0>>) EXCEPT !.Line = "L1"],
       [MkRow(<<2, 3>>, <<Ohm03, Ohm03, Len50>>, <<10, 3, 0>>) EXCEPT !.Line = "L2"]>>,
     <<[MkRow(<<1, 2>>, <<Ohm03, Ohm03, Len100>>, <<10, 3, 0>>) EXCEPT !.Line = "L1"],
       [MkRow(<<2, 3>>, <<Num(0), Num(0), Len50>>, <<0, 0, 0>>) EXCEPT !.Line = "L2"]>>}

ExampleProfiles == {"office", "residential_weekday"}

ExampleHours == {2, 9}

MkProduction(bus, mw) ==
    [Bus_ID |-> bus, active_power_mw |-> mw * Scale, voltage_pu |-> 1000,
     scaling |-> 1, in_service |-> TRUE, name |-> "G" \o bus]

\* the production frames handed to set_generation_mw: none, one generator
\* at A, one at B and one at a bus that is no node
Productions ==
    {<<>>, <<MkProduction("2", 1)>>, <<MkProduction("3", 1), MkProduction("9", 1)>>}

InitExample ==
    /\ xls \in ExampleSheets
    /\ entry = "direct"
    /\ node_arg = ExtractUniqueNodes(xls).val
    /\ cfg \in {[DefaultCfg(FALSE) EXCEPT !.profile_type = p] : p \in ExampleProfiles}
    /\ df_stats = StatsTable
    /\ np_random = 1
    /\ load_list = CallerFrames(xls, df_stats, cfg)
    /\ InitRest

\* set_generation_mw(net, production)
SetGenerationMw(production) ==
    /\ entry = "direct"
    /\ pc \in {"ready", "populated"}
    /\ net' = [net EXCEPT !.gen = CreateGenerators(net.gen,
                                     SetGenerationMwRows(production), buses)]
    /\ UNCHANGED <<node_df, line_df, synth, xls, node_arg, entry, cfg, df_stats,
                   np_random, gen, load_list, buses, pc, err, hours, hr, call,
                   log, out, ncalls>>

\* run(net), with the result tables the solver writes
DirectSolve ==
    /\ entry = "direct"
    /\ pc \in {"ready", "populated"}
    /\ \E converged \in SolverOutcomes(net), lvl \in FlowLevels :
        /\ net' = [net EXCEPT !.res = FlowResult(net, converged, lvl)]
        /\ err' = IF converged THEN "" ELSE "LoadflowNotConverged"
    /\ pc' = "ready"
    /\ UNCHANGED <<node_df, line_df, synth, xls, node_arg, entry, cfg, df_stats,
                   np_random, gen, load_list, buses, hours, hr, call, log, out,
                   ncalls>>

NextExample ==
    \/ CreateNet
    \/ \E h \in ExampleHours : DirectSetHourlyLoads(h)
    \/ \E production \in Productions : SetGenerationMw(production)
    \/ DirectSolve

SpecExample == InitExample /\ [][NextExample]_vars

----------------------------------------------------------------------------

(* PowerFlowViz on sheets with a station, with a column missing, or empty  *)

\* the sheet without one of its columns
DropColumn(sheet, c) ==
    [i \in 1..Len(sheet) |-> [f \in (DOMAIN sheet[i]) \ {c} |-> sheet[i][f]]]

MkSiteRow(ft, par, pk, xy, name) ==
    [MkRow(ft, par, pk) EXCEPT !.From_XY = xy[1], !.To_XY = xy[2], !.Line = name]

\* a feeder from the station BT1: bus 2 stands 5 m from it, bus 3 60 m
StationSheet ==
    <<MkSiteRow(<<0 - 1, 2>>, <<Ohm03, Ohm03, Len100>>, <<10, 3, 0>>,
                <<<<0, 0>>, <<5, 0>>>>, "L1"),
      MkSiteRow(<<2, 3>>, <<Ohm03, Ohm03, Len50>>, <<0, 0, 5>>,
                <<<<5, 0>>, <<60, 0>>>>, "L2")>>

\* the same feeder from a bus that is no station
PlainSheet ==
    <<MkSiteRow(<<1, 2>>, <<Ohm03, Ohm03, Len100>>, <<10, 3, 0>>,
                <<<<0, 0>>, <<5, 0>>>>, "L1"),
      MkSiteRow(<<2, 3>>, <<Ohm03, Ohm03, Len50>>, <<0, 0, 5>>,
                <<<<5, 0>>, <<60, 0>>>>, "L2")>>

SiteSheets ==
    {StationSheet, PlainSheet, <<>>}
    \cup {DropColumn(PlainSheet, c) : c \in AllColumns}

InitSite ==
    /\ xls \in SiteSheets
    /\ entry = "viz"
    /\ node_arg = <<>>
    /\ cfg \in {DefaultCfg(st) : st \in BOOLEAN}
    /\ df_stats = StatsTable
    /\ np_random = 1
    /\ load_list = NoFrames
    /\ InitRest

NextSite ==
    \/ PostInit
    \/ \E hs \in HourStarts, he \in HourEnds, sv \in BOOLEAN :
          GenerateTimeSliderMap(hs, he, sv)
    \/ \E sv \in BOOLEAN : GenerateStaticSummaryMap(sv)
    \/ IterSetHourlyLoads
    \/ IterRun
    \/ IterApply
    \/ Finish

SpecSite == InitSite /\ [][NextSite]_vars

----------------------------------------------------------------------------

(* Two generator objects constructed side by side in one process: each     *)
(* _generate_profile_df and _generate_pv_profile_df call of the one may    *)
(* run between two calls of the other, and all of them use np.random       *)

NewSynth(c) ==
    [cfg |-> c, pc |-> "new", err |-> "", active_profile_df |-> <<>>,
     reactive_profile_df |-> <<>>, pv_profile_df |-> <<>>]

ParCfgs ==
    {[DefaultCfg(st) EXCEPT !.add_noise = nz, !.seed = sd] :
        st \in BOOLEAN, nz \in BOOLEAN, sd \in {0, 7}}

InitPar ==
    /\ xls \in SynthSheets
    /\ entry = "par"
    /\ node_arg = <<>>
    /\ cfg = DefaultCfg(FALSE)
    /\ df_stats = StatsTable
    /\ np_random = 1
    /\ load_list = NoFrames
    /\ gen = NoFrames
    /\ buses = <<>>
    /\ net = EmptyNet
    /\ pc = "new"
    /\ err = ""
    /\ hours = <<>>
    /\ hr = 0
    /\ call = NoCall
    /\ log = <<>>
    /\ out = NoOut
    /\ ncalls = 0
    /\ node_df = <<>>
    /\ line_df = <<>>
    /\ synth \in [1..2 -> {NewSynth(c) : c \in ParCfgs}]

ParRest == <<xls, node_arg, entry, cfg, df_stats, gen, load_list, buses, net, pc,
             err, hours, hr, call, log, out, ncalls, node_df, line_df>>

\* __init__ of object k, lines 7 to 18: the curves are selected and the
\* active profile is generated
SynthActive(k) ==
    /\ entry = "par"
    /\ synth[k].pc = "new"
    /\ LET c    == synth[k].cfg
           prof == InitProfile(c.profile_type, c.stochastic)
           pv   == SelectPvProfile(c.pv_profile_type)
           act  == GenerateProfileDf(LoadRows(xls), "PLmax", prof.val, c, df_stats)
       IN  IF ~prof.ok \/ ~pv.ok
           THEN /\ synth' = [synth EXCEPT ![k].pc = "failed", ![k].err = "ValueError"]
                /\ UNCHANGED np_random
           ELSE /\ np_random' = act.rng
                /\ synth' = [synth EXCEPT
                      ![k].pc = IF act.ok THEN "active" ELSE "failed",
                      ![k].err = IF act.ok THEN "" ELSE act.err,
                      ![k].active_profile_df = IF act.ok THEN act.val ELSE <<>>]
    /\ UNCHANGED ParRest

\* __init__ of object k, lines 19 to 25: the reactive profile
SynthReactive(k) ==
    /\ entry = "par"
    /\ synth[k].pc = "active"
    /\ LET c    == synth[k].cfg
           prof == InitProfile(c.profile_type, c.stochastic)
           rea  == IF ~c.stochastic
                   THEN GenerateProfileDf(LoadRows(xls), "QLmax", prof.val, c, df_stats)
                   ELSE [ok |-> TRUE, rng |-> np_random,
                         val |-> Times03(synth[k].active_profile_df)]
       IN  /\ np_random' = rea.rng
           /\ synth' = [synth EXCEPT
                 ![k].pc = IF rea.ok THEN "reactive" ELSE "failed",
                 ![k].err = IF rea.ok THEN "" ELSE rea.err,
                 ![k].reactive_profile_df = IF rea.ok THEN rea.val ELSE <<>>]
    /\ UNCHANGED ParRest

\* __init__ of object k, line 26: the generation profile, drawn from
\* np.random as it stands
SynthGeneration(k) ==
    /\ entry = "par"
    /\ synth[k].pc = "reactive"
    /\ LET c   == synth[k].cfg
           pvd == GeneratePvProfileDf(LoadRows(xls),
                                      SelectPvProfile(c.pv_profile_type).val, c, np_random)
       IN  /\ np_random' = pvd.rng
           /\ synth' = [synth EXCEPT
                 ![k].pc = IF pvd.ok THEN "done" ELSE "failed",
                 ![k].err = IF pvd.ok THEN "" ELSE pvd.err,
                 ![k].pv_profile_df = IF pvd.ok THEN pvd.val ELSE <<>>]
    /\ UNCHANGED ParRest

NextPar ==
    \E k \in 1..2 : SynthActive(k) \/ SynthReactive(k) \/ SynthGeneration(k)

SpecPar == InitPar /\ [][NextPar]_vars

----------------------------------------------------------------------------

(* Properties *)

IsPrefix(a, b) == Len(a) <= Len(b) /\ \A i \in 1..Len(a) : a[i] = b[i]

StepNames == <<"set", "run", "apply">>

\* set, run, apply for each of the hours a..b-1 in turn
ExpectedLog(a, b) ==
    [i \in 1..(3 * (b - a)) |-> <<StepNames[((i - 1) % 3) + 1], a + ((i - 1) \div 3)>>]

InDayRange ==
    /\ call.kind \in {"slider", "static"}
    /\ 0 <= call.hour_start
    /\ call.hour_start < call.hour_end
    /\ call.hour_end <= HoursPerDay

Started(ev) == \E i \in 1..Len(log) : log[i][1] = ev

\* C1: for an hour range [start, end) inside the day, what the call has done
\* so far is a prefix of set(start), run(start), apply(start), set(start+1),
\* ... apply(end-1), broken off only by a failure; once the loop is over it
\* is this whole sequence: every hour once, ascending, each hour delivered
\* before the next one begins.
C1_HoursInOrder ==
    InDayRange =>
        LET want == ExpectedLog(call.hour_start, call.hour_end)
            done == IF pc = "aborted" THEN SubSeq(log, 1, Len(log) - 1) ELSE log
        IN  /\ IsPrefix(done, want)
            /\ pc \in {"finish", "done"} => log = want
            /\ pc = "set" => Len(log) % 3 = 0 /\ hours # <<>>
            /\ pc = "run" => log[Len(log)] = <<"set", hr>>
            /\ pc = "apply" => log[Len(log)] = <<"run", hr>>

C1_Witness ==
    /\ pc = "done"
    /\ call.kind = "slider"
    /\ call.hour_start = 22
    /\ call.hour_end = 24
    /\ log = <<<<"set", 22>>, <<"run", 22>>, <<"apply", 22>>,
               <<"set", 23>>, <<"run", 23>>, <<"apply", 23>>>>

\* C2: once the solver has failed at an hour, the call is over: the failure
\* is the last thing the call did, the hour was not delivered, and nothing
\* was aggregated, plotted, given its control or saved.
C2_SolverFailureFatal ==
    Started("fail") =>
        /\ pc = "aborted"
        /\ err = "LoadflowNotConverged"
        /\ log[Len(log)] = <<"fail", hr>>
        /\ \A i \in 1..(Len(log) - 1) :
              /\ log[i][1] # "fail"
              /\ log[i][2] <= hr
              /\ log[i] # <<"apply", hr>>
        /\ \A i \in 1..Len(out.delivered) : out.delivered[i].hour # HrStr(hr)
        /\ ~out.aggregated
        /\ ~out.plotted
        /\ ~out.control
        /\ ~out.saved
        /\ ~net.res.ok

C2_Witness ==
    /\ pc = "aborted"
    /\ call.kind = "static"
    /\ call.save
    /\ hr = 9
    /\ log[Len(log)] = <<"fail", 9>>
    /\ Len(out.delivered) = 9

\* the bus ids the network of this object was assembled from
AssembledIds == IF entry = "viz" THEN ExtractUniqueNodes(xls).val ELSE node_arg

\* the loads of hour h on a network assembled afresh from the same inputs
FreshLoads(h) ==
    LET fresh == CreateNetEmpty(xls, AssembledIds, <<>>)
    IN  SetHourlyLoads(fresh.net.load, HrStr(h), load_list, fresh.buses).load

Populated == pc \in {"run", "populated"}

\* C3: right after set_hourly_loads for hour h the load table is the one a
\* freshly assembled network gets for hour h, whatever was populated and
\* solved before.
C3_LoadsDependOnHourOnly == Populated => net.load = FreshLoads(hr)

C3_Witness ==
    /\ pc = "run"
    /\ ncalls = 2
    /\ hr = 0
    /\ net.res.ok
    /\ net.res.load # net.load
    /\ net.load # <<>>

\* indices of the load points whose bus is in the bus set, in order
KnownPoints ==
    SelectSeq([i \in 1..Len(load_list.load_df) |-> i],
              LAMBDA i : DictHas(buses, load_list.load_df[i].Bus_ID))

BusOf(i) == DictGet(buses, load_list.load_df[i].Bus_ID)

\* C4: right after set_hourly_loads for hour h the load table holds, for
\* the load points with a known bus and for no other, one load
\* (active(h)/1000, 0), one load (0, reactive(h)/1000) and one load
\* (-generation(h)/1000, 0): three times as many loads as known points.
C4_HourlyLoadsExact ==
    Populated =>
        LET h == HrStr(hr)
            K == KnownPoints
        IN  /\ Len(net.load) = 3 * Len(K)
            /\ net.load =
                 [k \in 1..Len(K) |->
                    [bus |-> BusOf(K[k]),
                     p_mw |-> load_list.active_profile_df[K[k]].col[h] \div 1000,
                     q_mvar |-> 0]]
                 \o
                 [k \in 1..Len(K) |->
                    [bus |-> BusOf(K[k]),
                     p_mw |-> 0,
                     q_mvar |-> load_list.reactive_profile_df[K[k]].col[h] \div 1000]]
                 \o
                 [k \in 1..Len(K) |->
                    [bus |-> BusOf(K[k]),
                     p_mw |-> (0 - load_list.pv_profile_df[K[k]].col[h]) \div 1000,
                     q_mvar |-> 0]]

C4_Witness ==
    /\ pc = "populated"
    /\ hr = 9
    /\ Len(load_list.load_df) = 2
    /\ Len(KnownPoints) = 1
    /\ Len(net.load) = 3
    /\ net.load[1].p_mw > 0
    /\ net.load[3].p_mw < 0

ZeroRow(row) == IsZero(row.R) \/ IsZero(row.X) \/ IsZero(row.Length)

MissingRow(row) == row.R.nan \/ row.X.nan \/ row.Length.nan

LineNamed(nm) == \E k \in 1..Len(net.line) : net.line[k].name = nm

KnownId(id) == \E k \in 1..Len(AssembledIds) : AssembledIds[k] = Str(id)

\* what can make an assembly fail, zero-valued rows apart: a sheet without
\* load rows under PowerFlowViz, no node at all under the first version, a
\* row that is not zero-valued and names a bus that is no node
FailsWithoutZeroRows ==
    \/ entry = "viz" /\ LoadRows(xls) = <<>>
    \/ entry = "legacy" /\ node_arg = <<>>
    \/ entry # "viz" /\ \E i \in 1..Len(xls) :
          ~ZeroRow(xls[i]) /\ (~KnownId(xls[i].From) \/ ~KnownId(xls[i].To))

\* C5: a row with resistance, reactance or length 0 is no line of the
\* assembled network; the other rows are lines of it; and an assembly never
\* fails because of such a row.
C5_ZeroRowsSkipped ==
    /\ pc = "ready" =>
          \A i \in 1..Len(xls) : ZeroRow(xls[i]) <=> ~LineNamed(xls[i].Line)
    /\ pc = "failed" => FailsWithoutZeroRows

C5_Witness ==
    /\ pc = "ready"
    /\ Len(xls) = 2
    /\ IsZero(xls[1].Length)
    /\ ~IsZero(xls[1].R)
    /\ ~ZeroRow(xls[2])
    /\ Len(net.line) = 1
    /\ net.line[1].name = "L2"

\* C6: a row with a missing (NaN) resistance, reactance or length is no
\* line of the assembled network.
C6_MissingRowsSkipped ==
    pc = "ready" =>
        \A i \in 1..Len(xls) : MissingRow(xls[i]) => ~LineNamed(xls[i].Line)

\* C7: a network that was assembled has exactly one external grid, on the
\* bus of the first id of the topology, before and after any population
\* and solve.
C7_OneReferenceOnFirstBus ==
    pc \notin {"new", "failed"} =>
        /\ Len(net.ext_grid) = 1
        /\ net.bus # <<>>
        /\ net.ext_grid[1].bus = 0
        /\ net.bus[1].name = AssembledIds[1]

\* C8: both ends of every assembled line are indices of assembled buses,
\* the buses of the ids its row names, and every assembled bus comes from
\* an id of the topology.
C8_LineEndsAreBuses ==
    pc = "ready" =>
        /\ \A k \in 1..Len(net.line) :
              LET l == net.line[k]
                  row == xls[CHOOSE i \in 1..Len(xls) : xls[i].Line = l.name]
              IN  /\ l.from_bus \in 0..(Len(net.bus) - 1)
                  /\ l.to_bus \in 0..(Len(net.bus) - 1)
                  /\ net.bus[l.from_bus + 1].name = Str(row.From)
                  /\ net.bus[l.to_bus + 1].name = Str(row.To)
        /\ Len(net.bus) = Len(AssembledIds)
        /\ \A b \in 1..Len(net.bus) : net.bus[b].name = AssembledIds[b]

C8_Witness ==
    /\ pc = "ready"
    /\ entry = "direct"
    /\ Len(xls) = 2
    /\ Len(node_arg) = 2
    /\ ~KnownId(xls[2].To)
    /\ Len(net.line) = 1
    /\ net.line[1].from_bus # net.line[1].to_bus

\* C9: an assembly from a topology without buses fails, and no assembled
\* network is without external grid.
C9_EmptyTopologyFails ==
    pc # "new" =>
        /\ (IF entry = "viz" THEN xls = <<>> ELSE node_arg = <<>>) => pc = "failed"
        /\ pc = "ready" => net.ext_grid # <<>>

UnknownLoadName == cfg.profile_type \notin DOMAIN profiles
UnknownPvName == cfg.pv_profile_type \notin DOMAIN pv_profile

\* C10 as stated: with an unknown load or generation archetype name the
\* construction fails and leaves no profile frames, in both modes.
C10_UnknownNameFails ==
    (pc # "new" /\ (UnknownLoadName \/ UnknownPvName)) =>
        pc = "failed" /\ gen = NoFrames

\* C10 as amended: an unknown generation archetype name fails the
\* construction in both modes, an unknown load archetype name fails it in
\* deterministic mode, both with a ValueError and without profile frames; in
\* stochastic mode the load archetype name is not looked up, and the
\* construction does what it does with a known name.
C10_UnknownNameFailsWhereLookedUp ==
    pc # "new" =>
        /\ (UnknownPvName \/ (UnknownLoadName /\ ~cfg.stochastic)) =>
              pc = "failed" /\ err = "ValueError" /\ gen = NoFrames
        /\ cfg.stochastic =>
              LET g == GeneratorInit(LoadRows(xls), df_stats,
                                     [cfg EXCEPT !.profile_type = "office"], 0)
              IN  IF g.ok THEN pc = "built" /\ gen = Frames(g.val, LoadRows(xls))
                  ELSE pc = "failed" /\ err = g.err

C10_Witness ==
    /\ pc = "failed"
    /\ err = "ValueError"
    /\ cfg.stochastic
    /\ UnknownPvName
    /\ UnknownLoadName
    /\ gen = NoFrames

\* the frames of a construction with the noise switched off
NoiseFree ==
    GeneratorInit(LoadRows(xls), df_stats, [cfg EXCEPT !.add_noise = FALSE], 0).val

\* C11: a second construction with the same load points, peaks, archetype
\* names, seed, noise flag, noise level and quantile table gives the same
\* active, reactive and generation frames as the first, wherever the first
\* left the process-wide numpy generator.
C11_SynthesisRepeats ==
    [][(pc = "built" /\ pc' = "built") => gen' = gen]_vars

C11_Witness ==
    /\ pc = "built"
    /\ ncalls = 2
    /\ cfg.add_noise
    /\ ~cfg.stochastic
    /\ gen.active_profile_df # NoiseFree.active_profile_df
    /\ gen.pv_profile_df # NoiseFree.pv_profile_df

\* the three frames of the generator built last
ProfileFrames == <<gen.active_profile_df, gen.reactive_profile_df, gen.pv_profile_df>>

\* C12: every frame of a generator that was built has one row per load
\* point, in the order of the load points, and each row has exactly the 24
\* columns "00:00", "01:00", ... "23:00", whatever labels the quantile table
\* carries.
C12_TwentyFourLabels ==
    /\ Len(HourLabels) = 24
    /\ Cardinality(SeqToSet(HourLabels)) = 24
    /\ HourLabels[1] = "00:00" /\ HourLabels[10] = "09:00"
    /\ HourLabels[11] = "10:00" /\ HourLabels[24] = "23:00"
    /\ pc = "built" =>
          \A f \in 1..3 :
              /\ Len(ProfileFrames[f]) = Len(LoadRows(xls))
              /\ \A i \in 1..Len(ProfileFrames[f]) :
                    /\ DOMAIN ProfileFrames[f][i].col = SeqToSet(HourLabels)
                    /\ ProfileFrames[f][i].Bus_ID = LoadRows(xls)[i].Bus_ID

C12_Witness ==
    /\ pc = "built"
    /\ cfg.stochastic
    /\ Len(df_stats) = HoursPerDay + 1
    /\ Len(gen.active_profile_df) = 2
    /\ DOMAIN gen.active_profile_df[2].col = SeqToSet(HourLabels)

\* v lies between 0 and peak * Scale, on the side of the peak's sign
ScaledDown(v, peak) ==
    IF peak >= 0 THEN 0 <= v /\ v <= peak * Scale
    ELSE peak * Scale <= v /\ v <= 0

\* C13 as stated: no value of a frame of a built generator is negative.
C13_NonNegative ==
    pc = "built" =>
        \A f \in 1..3 : \A i \in 1..Len(ProfileFrames[f]) :
            \A l \in DOMAIN ProfileFrames[f][i].col : ProfileFrames[f][i].col[l] >= 0

\* C13 as amended: the active and reactive values of stochastic mode are
\* >= 0; every generation value, and every active or reactive value of
\* deterministic mode, is its peak times a factor in [0, 1]: >= 0 for a
\* peak >= 0, and <= 0 for a negative peak.
C13_SignOfPeak ==
    pc = "built" =>
        \A i \in 1..Len(LoadRows(xls)) : \A l \in SeqToSet(HourLabels) :
            /\ ScaledDown(gen.pv_profile_df[i].col[l], LoadRows(xls)[i].Pg)
            /\ cfg.stochastic =>
                  /\ gen.active_profile_df[i].col[l] >= 0
                  /\ gen.reactive_profile_df[i].col[l] >= 0
            /\ ~cfg.stochastic =>
                  /\ ScaledDown(gen.active_profile_df[i].col[l], LoadRows(xls)[i].PLmax)
                  /\ ScaledDown(gen.reactive_profile_df[i].col[l], LoadRows(xls)[i].QLmax)

C13_Witness ==
    /\ pc = "built"
    /\ ~cfg.stochastic
    /\ cfg.add_noise
    /\ LoadRows(xls)[1].QLmax < 0
    /\ gen.reactive_profile_df[1].col["17:00"] < 0
    /\ gen.active_profile_df[1].col["17:00"] > 0

\* the breakpoints of the hour that was interpolated
DrawnQ == StatsRow(df_stats, out.delivered[1].hour).q

\* C14: the value interpolated for a draw u lies between Q5 and Q95 of the
\* hour, is Q5 for u <= 0.05 and Q95 for u >= 0.95, and no larger draw
\* gives a smaller value.
C14_QuantileBounds ==
    pc = "drawn" =>
        LET d == out.delivered[1]
        IN  /\ DrawnQ[1] <= d.value /\ d.value <= DrawnQ[7]
            /\ d.u <= 5 => d.value = DrawnQ[1]
            /\ d.u >= 95 => d.value = DrawnQ[7]
            /\ \A u2 \in Draws :
                  u2 >= d.u => Interp(u2, quantile_probs, DrawnQ) >= d.value

C14_Witness ==
    /\ pc = "drawn"
    /\ out.delivered[1].u = 60
    /\ DrawnQ[1] < 0
    /\ DrawnQ[4] < out.delivered[1].value
    /\ out.delivered[1].value < DrawnQ[5]

\* C15: in deterministic mode without noise the active value of load point
\* i at hour h is PLmax(i) times the value at h of the archetype named by
\* profile_type, whatever the seed, the noise level, the quantile table,
\* the generation archetype and other load points are.
C15_ActiveIsPeakTimesShape ==
    (pc = "built" /\ ~cfg.stochastic /\ ~cfg.add_noise) =>
        \A i \in 1..Len(LoadRows(xls)) : \A h \in 0..(HoursPerDay - 1) :
            gen.active_profile_df[i].col[HrStr(h)] =
                LoadRows(xls)[i].PLmax
                    * (profiles[cfg.profile_type][h + 1] * (Scale \div 100))

C15_Witness ==
    /\ pc = "built"
    /\ ~cfg.stochastic
    /\ ~cfg.add_noise
    /\ cfg.profile_type = "office"
    /\ cfg.seed = 7
    /\ LoadRows(xls)[1].PLmax = 10
    /\ gen.active_profile_df[1].col["09:00"] = 10 * Scale
    /\ gen.active_profile_df[1].col["02:00"] = 0
    /\ gen.active_profile_df[1].col["15:00"] = 6 * Scale

\* the defined values of a series, in order
DefinedOf(series) == SelectSeq(series, LAMBDA x : ~x.nan)

LargestOf(series) ==
    CHOOSE x \in SeqToSet(DefinedOf(series)) :
        \A y \in SeqToSet(DefinedOf(series)) : y.v <= x.v

\* C16: at the end of the static map, every line with a defined loading
\* at some hour has, in the extrema map, the largest of its defined
\* loadings, and in the series map its series without the undefined hours,
\* wherever in the day the undefined values are and whatever the other
\* elements' values are.
C16_MaxOfDefined ==
    pc = "done" =>
        \A e \in 1..Len(out.line_hist) :
            LET name == out.line_hist[e].key
                series == out.line_hist[e].val
            IN  DefinedOf(series) # <<>> =>
                    /\ DictHas(out.max_loading, name)
                    /\ DictGet(out.max_loading, name) = LargestOf(series)
                    /\ DictHas(out.loading_series, name)
                    /\ DictGet(out.loading_series, name) = DefinedOf(series)

AllUndefined(hist, name) ==
    DictHas(hist, name) /\ DefinedOf(DictGet(hist, name)) = <<>>

\* C17: at the end of the static map, a line whose loading was undefined
\* at every hour is in neither the extrema map nor the series map of the
\* lines, and a bus whose voltage was undefined at every hour is in
\* neither map of the buses.
C17_AllUndefinedDropped ==
    pc = "done" =>
        /\ \A k \in 1..Len(net.line) :
              AllUndefined(out.line_hist, net.line[k].name) =>
                  /\ ~DictHas(out.max_loading, net.line[k].name)
                  /\ ~DictHas(out.loading_series, net.line[k].name)
        /\ \A b \in 1..Len(net.bus) :
              (b - 1 \notin Supplied(net) \/ AllUndefined(out.bus_hist, net.bus[b].name)) =>
                  /\ ~DictHas(out.max_voltage, net.bus[b].name)
                  /\ ~DictHas(out.voltage_series, net.bus[b].name)

C17_Witness ==
    /\ pc = "done"
    /\ Len(net.bus) = 4
    /\ AllUndefined(out.line_hist, "L2")
    /\ AllUndefined(out.bus_hist, "4")
    /\ DictHas(out.max_loading, "L1")
    /\ DictHas(out.max_voltage, "2")
    /\ ~DictHas(out.max_loading, "L2")
    /\ ~DictHas(out.max_voltage, "4")

\* sum of a column over the rows of a bus
RECURSIVE SumOf(_, _, _, _)
SumOf(rows, i, name, col) ==
    IF i > Len(rows) THEN 0
    ELSE (IF rows[i].bus = name THEN rows[i][col] ELSE 0) + SumOf(rows, i + 1, name, col)

\* the bus has a net active or reactive injection at hour h
InjectsAt(name, h) ==
    LET rows == HourlyRows(HrStr(h), load_list.active_profile_df,
                           load_list.reactive_profile_df, load_list.pv_profile_df)
    IN  SumOf(rows, 1, name, "p_mw") # 0 \/ SumOf(rows, 1, name, "q_mvar") # 0

ZeroPeaks(name) ==
    \A i \in 1..Len(xls) :
        Str(xls[i].To) = name =>
            xls[i].PLmax = 0 /\ xls[i].QLmax = 0 /\ xls[i].Pg = 0

\* C19: a bus of the network for which every row gives zero peaks is in
\* every hourly result table, one row per bus, and never in the series
\* collected for the voltage map nor in the voltage map itself.
C19_ZeroPeakBusAbsent ==
    /\ pc = "apply" => Len(net.res.res_bus) = Len(net.bus)
    /\ \A b \in 1..Len(net.bus) :
          ZeroPeaks(net.bus[b].name) =>
              /\ ~DictHas(out.bus_hist, net.bus[b].name)
              /\ ~DictHas(out.max_voltage, net.bus[b].name)
              /\ ~DictHas(out.voltage_series, net.bus[b].name)

C19_Witness ==
    /\ pc = "done"
    /\ Len(net.bus) = 3
    /\ net.bus[3].name = "3"
    /\ ZeroPeaks("3")
    /\ 2 \in Supplied(net)
    /\ ~DictHas(out.max_voltage, "3")
    /\ DictHas(out.max_voltage, "2")
    /\ DictHas(out.voltage_series, "2")

\* a frame without the rows of the load points whose bus is unknown
KnownRows(frame) == SelectSeq(frame, LAMBDA r : DictHas(buses, r.Bus_ID))

\* C20: right after set_hourly_loads no error is pending and the load
\* table is the one the frames give once the load points with an unknown
\* bus are taken out of them: nothing is created for such a point, and
\* the known points get their loads as if it were not there.
C20_UnknownBusSkipped ==
    Populated =>
        /\ err = ""
        /\ net.load =
              SetHourlyLoads(<<>>, HrStr(hr),
                             [load_list EXCEPT
                                !.active_profile_df = KnownRows(@),
                                !.reactive_profile_df = KnownRows(@),
                                !.pv_profile_df = KnownRows(@)],
                             buses).load
        /\ \A k \in 1..Len(net.load) :
              \E i \in 1..Len(load_list.load_df) :
                  /\ DictHas(buses, load_list.load_df[i].Bus_ID)
                  /\ net.load[k].bus = BusOf(i)

C20_Witness ==
    /\ pc = "populated"
    /\ Len(load_list.load_df) = 2
    /\ hr = 17
    /\ DictHas(buses, load_list.load_df[1].Bus_ID)
    /\ ~DictHas(buses, load_list.load_df[2].Bus_ID)
    /\ load_list.active_profile_df[2].col["17:00"] > 0
    /\ Len(net.load) = 3
    /\ \A k \in 1..3 : net.load[k].bus = BusOf(1)

\* the end-to-end example: buses ref = 1, A = 2, B = 3, line ref-A real,
\* line A-B a row with r = 0 and x = 0, one load of 10 kW / 3 kVar at B,
\* the deterministic "office" archetype, no generator
ExampleCase ==
    /\ Len(xls) = 2
    /\ IsZero(xls[2].R) /\ IsZero(xls[2].X)
    /\ xls[2].PLmax = 10 /\ xls[2].QLmax = 3
    /\ cfg.profile_type = "office"
    /\ ~cfg.stochastic

\* the network was populated for hour h and then solved
SolvedAt(h) ==
    /\ pc = "ready"
    /\ net.res.ok
    /\ hr = h
    /\ net.res.load = net.load
    /\ net.res.gen = <<>>

\* C21: in the end-to-end example line ref-A is assembled and line A-B is
\* not, and the solve of hour "09:00" gives a non-zero loading on line
\* ref-A and a defined voltage at bus B: the load at B is served from the
\* reference bus.
C21_ExampleServed ==
    (ExampleCase /\ SolvedAt(9)) =>
        /\ Len(net.line) = 1
        /\ net.line[1].name = "L1"
        /\ ~net.res.res_line[1].nan
        /\ net.res.res_line[1].v # 0
        /\ ~net.res.res_bus[3].nan


\* C22: every set_hourly_loads leaves the network without generators:
\* no generator created by an earlier set_generation_mw is still there
\* when the hour is solved.
C22_GeneratorsCleared ==
    [][(\E h \in ExampleHours : DirectSetHourlyLoads(h)) => net'.gen = <<>>]_vars


\* the sheet lacks a column the run needs, or has no row
MissingColumn == Columns(xls) # AllColumns

EmptyTopology == xls = <<>>

\* C23: a sheet without one of the required columns (the line-parameter
\* columns among them) or without any row makes the construction of the
\* PowerFlowViz object fail; every failure of a construction happens before
\* the first call, population and solve; and what fails once a solve has
\* been made is the solver or an hour label, never the configuration.
C23_ConfigErrorsBeforeSolve ==
    /\ (pc # "new" /\ (MissingColumn \/ EmptyTopology)) =>
          /\ pc = "failed"
          /\ err \in {"ValueError", "KeyError"}
    /\ pc = "failed" =>
          /\ ncalls = 0
          /\ log = <<>>
          /\ net = EmptyNet
          /\ out = NoOut
    /\ Started("run") =>
          /\ ~MissingColumn /\ ~EmptyTopology
          /\ err \in {"", "LoadflowNotConverged", "KeyError"}
          /\ err = "KeyError" => log[Len(log)] = <<"keyerror", hr>>

C23_Witness ==
    /\ pc = "failed"
    /\ err = "KeyError"
    /\ Len(xls) = 2
    /\ "Ampacity" \notin Columns(xls)
    /\ "R" \in Columns(xls)
    /\ load_list.built
    /\ Len(buses) = 3
    /\ net = EmptyNet


\* the frames an object with arguments c has when it is constructed alone
AloneFrames(c) == GeneratorInit(LoadRows(xls), df_stats, c, 0).val

\* the frames of a constructed object are those it has when constructed alone
ValuesAsAlone(g) ==
    g.pc = "done" =>
        /\ g.active_profile_df = AloneFrames(g.cfg).active_profile_df
        /\ g.reactive_profile_df = AloneFrames(g.cfg).reactive_profile_df
        /\ g.pv_profile_df = AloneFrames(g.cfg).pv_profile_df

\* C24: the random state an object draws from is its own: whatever another
\* object does between its active, reactive and generation steps, its
\* frames are those it has when constructed alone, and no step of a
\* construction changes the random state of the process, np.random.
C24_LocalRandomState ==
    [][/\ np_random' = np_random
       /\ \A k \in 1..2 : ValuesAsAlone(synth'[k])]_vars


\* the peak column and the curve of frame f: active, reactive, generation
PeakOf(f, i) ==
    IF f = 1 THEN LoadRows(xls)[i].PLmax
    ELSE IF f = 2 THEN LoadRows(xls)[i].QLmax
    ELSE LoadRows(xls)[i].Pg

ShapeOf(f, h) ==
    IF f = 3 THEN pv_profile[cfg.pv_profile_type][h + 1]
    ELSE profiles[cfg.profile_type][h + 1] * (Scale \div 100)

\* the standard normal draw behind the noise of load point i at hour h in
\* frame f: the generation frame goes on where the reactive frame stopped
DrawOf(f, i, h) ==
    LET n == Len(LoadRows(xls))
    IN  NormalZ(RngAdvance(RngSeed(cfg.seed),
                           (IF f = 3 THEN n * HoursPerDay ELSE 0) + h * n + i))

NoisyBuilt == pc = "built" /\ ~cfg.stochastic /\ cfg.add_noise

\* C25 as stated: with noise in deterministic mode every value of a load
\* point with a peak >= 0 lies between 0 and peak * archetype_shape(hour).
C25_NoiseClippedFirst ==
    NoisyBuilt =>
        \A f \in 1..3 : \A i \in 1..Len(LoadRows(xls)) : \A h \in 0..(HoursPerDay - 1) :
            PeakOf(f, i) >= 0 =>
                /\ 0 <= ProfileFrames[f][i].col[HrStr(h)]
                /\ ProfileFrames[f][i].col[HrStr(h)] <= PeakOf(f, i) * ShapeOf(f, h)

\* C25 as amended: the product of archetype value and noise factor is
\* clipped to [0, 1], not the noise factor: for a peak >= 0 every noisy
\* value lies between 0 and the peak, it is 0 where the archetype is 0, at
\* most peak * archetype_shape(hour) where the noise factor is at most 1,
\* and above it where the noise factor exceeds 1, the archetype value is
\* below 1 and neither it nor the peak is 0.
C25_ProductClipped ==
    NoisyBuilt =>
        \A f \in 1..3 : \A i \in 1..Len(LoadRows(xls)) : \A h \in 0..(HoursPerDay - 1) :
            LET v == ProfileFrames[f][i].col[HrStr(h)]
            IN  PeakOf(f, i) >= 0 =>
                    /\ 0 <= v /\ v <= PeakOf(f, i) * Scale
                    /\ ShapeOf(f, h) = 0 => v = 0
                    /\ DrawOf(f, i, h) <= 0 => v <= PeakOf(f, i) * ShapeOf(f, h)
                    /\ (DrawOf(f, i, h) > 0 /\ PeakOf(f, i) > 0
                        /\ 0 < ShapeOf(f, h) /\ ShapeOf(f, h) < Scale) =>
                          v > PeakOf(f, i) * ShapeOf(f, h)

C25_Witness ==
    /\ NoisyBuilt
    /\ cfg.profile_type = "hospital"
    /\ cfg.noise_level = 60
    /\ PeakOf(1, 1) = 10
    /\ \E h \in 0..(HoursPerDay - 1) :
          /\ ShapeOf(1, h) < Scale
          /\ gen.active_profile_df[1].col[HrStr(h)] = 10 * Scale
    /\ \E h \in 0..(HoursPerDay - 1) :
          /\ ShapeOf(1, h) > 0
          /\ gen.active_profile_df[1].col[HrStr(h)] = 0
    /\ \E h \in 0..(HoursPerDay - 1) :
          /\ gen.pv_profile_df[1].col[HrStr(h)] > PeakOf(3, 1) * ShapeOf(3, h)
          /\ gen.pv_profile_df[1].col[HrStr(h)] < PeakOf(3, 1) * Scale


UnknownEndpointRow(row) ==
    /\ ~SkipLine(row.R, row.X, row.Length)
    /\ ~KnownId(row.From) \/ ~KnownId(row.To)

DirectAssembled == entry = "direct" /\ pc # "new"

\* C27 as stated: a row with resistance, reactance and length all non-zero
\* whose from- or to-bus is no bus of the topology does not make the
\* assembly fail.
C27_UnknownEndpointTolerated ==
    (DirectAssembled /\ \E i \in 1..Len(xls) :
        ~ZeroRow(xls[i]) /\ ~MissingRow(xls[i]) /\ UnknownEndpointRow(xls[i]))
    => pc = "ready"

\* C27 as amended: a row that is not skipped (resistance, reactance and
\* length all non-zero, or missing) whose from- or to-bus is no bus of the
\* topology makes the assembly fail with a KeyError: no network is returned,
\* the bus dictionary is already filled. Only a row skipped for a zero
\* parameter may name an unknown bus: the assembly completes exactly when
\* every row with an unknown endpoint is such a row.
C27_UnknownEndpointRaises ==
    DirectAssembled =>
        IF \E i \in 1..Len(xls) : UnknownEndpointRow(xls[i])
        THEN /\ pc = "failed"
             /\ err = "KeyError"
             /\ net = EmptyNet
             /\ \A k \in 1..Len(node_arg) : DictHas(buses, node_arg[k])
        ELSE pc = "ready"

C27_Witness ==
    /\ DirectAssembled
    /\ pc = "failed"
    /\ err = "KeyError"
    /\ Len(xls) = 2
    /\ Len(node_arg) = 2
    /\ ~ZeroRow(xls[1]) /\ ~MissingRow(xls[1])
    /\ ~UnknownEndpointRow(xls[1])
    /\ ~ZeroRow(xls[2]) /\ ~MissingRow(xls[2])
    /\ ~KnownId(xls[2].To)
    /\ DictHas(buses, node_arg[2])


OfficeBuilt ==
    /\ pc = "built"
    /\ ~cfg.stochastic
    /\ ~cfg.add_noise
    /\ cfg.profile_type = "office"

\* C28 as stated: with the office archetype, deterministic and without
\* noise, the active value of every load point is 0 at 00:00, 01:00, 02:00,
\* 03:00 and 04:00.
C28_OfficeZeroBeforeFive ==
    OfficeBuilt =>
        \A i \in 1..Len(gen.active_profile_df) : \A h \in 0..4 :
            gen.active_profile_df[i].col[HrStr(h)] = 0

\* C28 as amended: with the office archetype, deterministic and without
\* noise, the active value of every load point is 0 at 00:00, 01:00, 02:00
\* and 03:00, and 0.05 times its peak at 04:00.
C28_OfficeZeroBeforeFour ==
    OfficeBuilt =>
        \A i \in 1..Len(gen.active_profile_df) :
            /\ \A h \in 0..3 : gen.active_profile_df[i].col[HrStr(h)] = 0
            /\ 20 * gen.active_profile_df[i].col[HrStr(4)]
                  = LoadRows(xls)[i].PLmax * Scale

C28_Witness ==
    /\ OfficeBuilt
    /\ Len(gen.active_profile_df) = 2
    /\ LoadRows(xls)[1].PLmax = 10
    /\ gen.active_profile_df[1].col[HrStr(3)] = 0
    /\ gen.active_profile_df[1].col[HrStr(4)] = 5000000
    /\ gen.active_profile_df[1].col[HrStr(9)] = 10 * Scale


\* the state of the stream n draws after its seeding
StreamAt(k) == RngAdvance(RngSeed(cfg.seed), k)

\* C29: in deterministic mode with noise the stream is seeded anew before
\* the active and before the reactive frame: load point i at hour h has the
\* same noisy factor in both, the one of draw h * n + i after the seeding,
\* so active * reactive peak = reactive * active peak. The generation frame
\* is not seeded: its factor is the one of draw 24 * n + h * n + i.
C29_SameDrawActiveReactive ==
    NoisyBuilt =>
        LET n == Len(LoadRows(xls))
        IN  \A i \in 1..n : \A h \in 0..(HoursPerDay - 1) :
              LET a == gen.active_profile_df[i].col[HrStr(h)]
                  r == gen.reactive_profile_df[i].col[HrStr(h)]
                  g == gen.pv_profile_df[i].col[HrStr(h)]
              IN  /\ a * PeakOf(2, i) = r * PeakOf(1, i)
                  /\ a = PeakOf(1, i) * NoisyShape(ShapeOf(1, h), cfg.noise_level,
                                                   StreamAt(h * n + i))
                  /\ g = PeakOf(3, i) * NoisyShape(ShapeOf(3, h), cfg.noise_level,
                                                   StreamAt(HoursPerDay * n + h * n + i))

C29_Witness ==
    /\ NoisyBuilt
    /\ Len(LoadRows(xls)) = 2
    /\ \E h \in 0..(HoursPerDay - 1) :
          /\ gen.active_profile_df[1].col[HrStr(h)] \notin
                {0, PeakOf(1, 1) * ShapeOf(1, h), PeakOf(1, 1) * Scale}
          /\ gen.reactive_profile_df[1].col[HrStr(h)] \notin
                {0, PeakOf(2, 1) * ShapeOf(2, h), PeakOf(2, 1) * Scale}
          /\ gen.pv_profile_df[2].col[HrStr(h)] \notin
                {0, PeakOf(3, 2) * ShapeOf(3, h), PeakOf(3, 2) * Scale}
          /\ DrawOf(1, 2, h) # DrawOf(3, 2, h)

BadHour(h) == HrStr(h) \notin SeqToSet(HourLabels)

\* C30: a call whose hour range holds an hour without a label in the
\* profile frames does the hours before it in full (populated, solved,
\* delivered, in order), then fails with a KeyError in set_hourly_loads of
\* that hour: the loads of the network are already dropped, the solver is
\* not run for the hour, nothing is delivered for it, no control is added
\* and no map is saved. A call does not end in a KeyError otherwise, and a
\* call with such an hour never completes.
C30_BadHourAbortsAfterClear ==
    /\ (pc = "aborted" /\ err = "KeyError") =>
          /\ BadHour(hr)
          /\ \A h \in call.hour_start..(hr - 1) : ~BadHour(h)
          /\ log = ExpectedLog(call.hour_start, hr) \o <<<<"keyerror", hr>>>>
          /\ net.load = <<>>
          /\ Len(out.delivered) = hr - call.hour_start
          /\ ~out.control
          /\ ~out.saved
    /\ (pc = "done" /\ call.kind = "slider") =>
          \A h \in call.hour_start..(call.hour_end - 1) : ~BadHour(h)

C30_Witness ==
    /\ pc = "aborted"
    /\ err = "KeyError"
    /\ call.kind = "slider"
    /\ call.save
    /\ call.hour_start = 22
    /\ call.hour_end = 25
    /\ hr = 24
    /\ Len(log) = 7
    /\ Len(out.delivered) = 2
    /\ out.delivered[2].res.load # <<>>
    /\ net.load = <<>>
    /\ ~out.saved

====
